---- MODULE Spec2Model ----
(***************************************************************************)
(* Hierarchical memory-aware operator scheduler (HMCOS, sched.cpp).        *)
(*                                                                         *)
(* The model follows the translation unit part_000: scheduleSequence,      *)
(* scheduleGroupRpo, updateResult, scheduleGroupDp, updateGroupUseCount,   *)
(* HierScheduler::Schedule / scheduleVertex, findEdgesToRestore, ungroup,  *)
(* tryUngroupSucc and HierarchicalSchedule.  The collaborators that live   *)
(* in other translation units (MemStateVec, the hierarchical graph built   *)
(* by JoinSequencePass / MakeGroupPass, ComputeLifetime, EstimatePeak, the *)
(* reverse post-order iterator) are modelled from the specification.       *)
(***************************************************************************)
EXTENDS Integers, Sequences, FiniteSets, TLC

(***************************************************************************)
(* Generic helpers                                                         *)
(***************************************************************************)
Range(s) == {s[i] : i \in DOMAIN s}

Max2(a, b) == IF a >= b THEN a ELSE b

SetMax(S) == CHOOSE x \in S : \A y \in S : y <= x

SetMin(S) == CHOOSE x \in S : \A y \in S : x <= y

RECURSIVE SumOver(_, _)
\* Sum of f[x] over the positions of sequence s (with multiplicity).
SumOver(f, s) == IF s = <<>> THEN 0 ELSE f[Head(s)] + SumOver(f, Tail(s))

RECURSIVE SortSet(_)
\* The ascending sequence of a finite set of integers.
SortSet(S) == IF S = {} THEN <<>> ELSE LET m == SetMin(S) IN <<m>> \o SortSet(S \ {m})

RECURSIVE Flatten(_)
Flatten(ss) == IF ss = <<>> THEN <<>> ELSE Head(ss) \o Flatten(Tail(ss))

SelectFrom(s, T) == SelectSeq(s, LAMBDA x : x \in T)

\* util: Remove(vec, elem) erases the element from a vector.
Remove(vec, elem) == SelectSeq(vec, LAMBDA x : x # elem)

\* util: AddUnique(vec, elem) appends the element unless it is present.
AddUnique(vec, elem) == IF elem \in Range(vec) THEN vec ELSE Append(vec, elem)

\* std::unordered_map helpers: a map is a function with a finite domain.
EmptyMap == [x \in {} |-> 0]

MapGet(m, k) == IF k \in DOMAIN m THEN m[k] ELSE 0

MapPut(m, k, v) == [x \in (DOMAIN m) \cup {k} |-> IF x = k THEN v ELSE m[x]]

MapErase(m, ks) == [x \in (DOMAIN m) \ ks |-> m[x]]

\* unordered_map::insert keeps an existing entry.
MapInsert(m, k, v) == IF k \in DOMAIN m THEN m ELSE MapPut(m, k, v)

\* uint32_t / uint64_t values are kept as their representative in the signed
\* range of the same width: 0 - 1 wraps to 2^32 - 1, written -1.  The code
\* compares such values only for equality.
Dec32(n, d) == n - d

\* OVERLAP_FAILED = UINT32_MAX
OVERLAP_FAILED == -1

\* UINT64_MAX
UINT64_MAX == -1

(***************************************************************************)
(* Memory-state vector (MemStateVec, hos/sched/mem.hpp; specification 4.1) *)
(* init is the initial stable size; trans[i] / stab[i] are the transient   *)
(* and the stable size of step i.                                          *)
(***************************************************************************)
MemStateVec(init) == [init |-> init, trans |-> <<>>, stab |-> <<>>]

Latest(m) == IF m.stab = <<>> THEN m.init ELSE m.stab[Len(m.stab)]

Peak(m) == SetMax({m.init} \cup Range(m.trans))

\* Append(inc, dec): transient = previous stable + inc, stable = transient - dec.
MsvAppend(m, inc, dec) ==
    LET up == Latest(m) + inc
    IN  [m EXCEPT !.trans = Append(@, up), !.stab = Append(@, up - dec)]

\* Extend(other): the steps of other, rebased onto this vector's stable size.
MsvExtend(m, other) ==
    LET base == Latest(m) - other.init
    IN  [m EXCEPT !.trans = @ \o [i \in DOMAIN other.trans |-> other.trans[i] + base],
                  !.stab  = @ \o [i \in DOMAIN other.stab |-> other.stab[i] + base]]

(***************************************************************************)
(* The computation graph (Graph, Op, Value).  A graph c is a record:       *)
(*   opIn, opOut : op -> sequence of values (op->inputs, op->outputs)      *)
(*   size        : value -> byte size (val->type.Size())                   *)
(*   param       : the values of kind PARAM                                *)
(*   ovl         : op -> OverlapInput(op), an input index from 0 or        *)
(*                 OVERLAP_FAILED                                          *)
(*   gin, gout   : graph inputs and graph outputs (sequences of values)    *)
(*   seqOps      : sequence id -> ops of the Sequence (JoinSequencePass)   *)
(*   grpSeqs     : group index -> set of sequence ids (MakeGroupPass)      *)
(* HierGraph (below) adds what the graph and the passes precompute:        *)
(* numUses, defOp, users, opToSeq, the vertex sets, prevSuccs / prevPreds, *)
(* and per Group seqs, inFront, outFront, exits, consumed, produced.       *)
(***************************************************************************)
Ops(c) == DOMAIN c.opIn

Values(c) == DOMAIN c.size

\* val->uses.size(): one use per input slot that reads the value.
NumUses(c, val) ==
    Cardinality(UNION {{<<o, i>> : i \in {j \in DOMAIN c.opIn[o] : c.opIn[o][j] = val}}
                       : o \in Ops(c)})

\* val->def: the defining op of a value ("" for inputs and parameters).
DefOp(c, val) ==
    IF \E o \in Ops(c) : val \in Range(c.opOut[o])
    THEN CHOOSE o \in Ops(c) : val \in Range(c.opOut[o])
    ELSE ""

\* hier.opToSeq: the Sequence that holds an op (0 for the null op).
OpToSeq(c, op) ==
    IF \E s \in DOMAIN c.seqOps : op \in Range(c.seqOps[s])
    THEN CHOOSE s \in DOMAIN c.seqOps : op \in Range(c.seqOps[s])
    ELSE 0

\* op -> op dependencies of the graph (op->preds / op->succs).
OpEdges(c) ==
    {<<u, v>> \in Ops(c) \X Ops(c) :
        u # v /\ Range(c.opOut[u]) \cap Range(c.opIn[v]) # {}}

(***************************************************************************)
(* scheduleSequence (part_000 144-192)                                     *)
(***************************************************************************)
RECURSIVE ConsumeInputs(_, _, _, _)
\* Lines 150-155: "--useCnt[val]" for every non-PARAM input, collecting the
\* values whose count reaches zero.  acc = [useCnt, killed].
ConsumeInputs(c, ins, i, acc) ==
    IF i > Len(ins) THEN acc
    ELSE LET val == ins[i] IN
         IF val \in c.param THEN ConsumeInputs(c, ins, i + 1, acc)
         ELSE LET cnt == Dec32(MapGet(acc.useCnt, val), 1)
              IN  ConsumeInputs(c, ins, i + 1,
                     [useCnt |-> MapPut(acc.useCnt, val, cnt),
                      killed |-> IF cnt = 0 THEN Append(acc.killed, val)
                                 ELSE acc.killed])

\* A variant of OvlIdx that keeps the proposed overlap without looking at
\* the killed values.
OvlIdxUnchecked(c, op, killed) == c.ovl[op]

\* Lines 158-160: the overlap proposed by the trait is kept only if the
\* proposed input is killed at this op.
OvlIdx(c, op, killed) ==
    IF c.ovl[op] # OVERLAP_FAILED /\ c.opIn[op][c.ovl[op] + 1] \notin Range(killed)
    THEN OVERLAP_FAILED ELSE c.ovl[op]

\* A variant of OpInc that allocates the outputs whether or not an overlap
\* was accepted.
OpIncAlways(c, op, ovlIdx) == SumOver(c.size, c.opOut[op])

\* Lines 163-167: increase at the transition to the transient state.
OpInc(c, op, ovlIdx) ==
    IF ovlIdx = OVERLAP_FAILED THEN SumOver(c.size, c.opOut[op]) ELSE 0

\* Line 170: the value left out of the decrease ("" stands for nullptr).
OvlVal(c, op, ovlIdx) ==
    IF ovlIdx = OVERLAP_FAILED THEN "" ELSE c.opIn[op][1]

\* Lines 171-178: decrease at the transition to the stable state.
OpDec(c, op, killed, ovlVal) ==
    SumOver(c.size,
            SelectSeq(c.opIn[op],
                      LAMBDA val : /\ val \notin c.param
                                   /\ val \in Range(killed)
                                   /\ val # ovlVal))

RECURSIVE InsertOutputsOnce(_, _, _)
\* A variant of InsertOutputs that gives every output a count of one use.
InsertOutputsOnce(c, outs, useCnt) ==
    IF outs = <<>> THEN useCnt
    ELSE InsertOutputsOnce(c, Tail(outs), MapInsert(useCnt, Head(outs), 1))

RECURSIVE InsertOutputs(_, _, _)
\* Lines 187-188: useCnt.insert({val, val->uses.size()}) for each output.
InsertOutputs(c, outs, useCnt) ==
    IF outs = <<>> THEN useCnt
    ELSE InsertOutputs(c, Tail(outs),
                       MapInsert(useCnt, Head(outs), c.numUses[Head(outs)]))

\* A variant of ComputeStates that frees the killed inputs before the outputs
\* are allocated, so that the transient state does not hold them.
ComputeStatesFreeFirst(c, op, st, cons) ==
    LET ovlIdx == OvlIdx(c, op, cons.killed)
    IN  [st EXCEPT
           !.states = MsvAppend(@, OpInc(c, op, ovlIdx)
                                   - OpDec(c, op, cons.killed, OvlVal(c, op, ovlIdx)), 0),
           !.useCnt = InsertOutputs(c, c.opOut[op],
                                    MapErase(cons.useCnt, Range(cons.killed)))]

\* Lines 157-188 of one iteration, given cons = [useCnt, killed] as left by
\* lines 150-155.  st = [seq, states, useCnt].
ComputeStates(c, op, st, cons) ==
    LET ovlIdx == OvlIdx(c, op, cons.killed)
    IN  [st EXCEPT
           !.states = MsvAppend(@, OpInc(c, op, ovlIdx),
                                OpDec(c, op, cons.killed, OvlVal(c, op, ovlIdx))),
           !.useCnt = InsertOutputs(c, c.opOut[op],
                                    MapErase(cons.useCnt, Range(cons.killed)))]

\* One iteration of the loop of lines 148-189.
ScheduleOp(c, op, st) ==
    ComputeStates(c, op, st,
                  ConsumeInputs(c, c.opIn[op], 1, [useCnt |-> st.useCnt, killed |-> <<>>]))

RECURSIVE ScheduleOps(_, _, _)
ScheduleOps(c, ops, st) ==
    IF ops = <<>> THEN st
    ELSE ScheduleOps(c, Tail(ops), ScheduleOp(c, Head(ops), st))

\* Returns the SchedResult {seq->ops, states} and the updated use counts.
scheduleSequence(c, s, useCnt) ==
    ScheduleOps(c, c.seqOps[s],
                [seq |-> c.seqOps[s], states |-> MemStateVec(0), useCnt |-> useCnt])


(***************************************************************************)
(* Hierarchical graph (HierGraph, Sequence, Group; specification 3).       *)
(* Vertices are numbered: Sequences 1..NSeq, then Groups, then one         *)
(* HierInput per graph input, then one HierOutput per graph output.        *)
(***************************************************************************)
NSeq(c) == Len(c.seqOps)

NGrp(c) == Len(c.grpSeqs)

SeqVerts(c) == 1 .. NSeq(c)

GrpVerts(c) == (NSeq(c) + 1) .. (NSeq(c) + NGrp(c))

InVert(c, k) == NSeq(c) + NGrp(c) + k

OutVert(c, k) == NSeq(c) + NGrp(c) + Len(c.gin) + k

InVerts(c) == {InVert(c, k) : k \in DOMAIN c.gin}

OutVerts(c) == {OutVert(c, k) : k \in DOMAIN c.gout}

HierVerts(c) == SeqVerts(c) \cup GrpVerts(c) \cup InVerts(c) \cup OutVerts(c)

\* Values read / defined by the ops of a Sequence.
SeqInputs(c, s) == UNION {Range(c.opIn[o]) : o \in Range(c.seqOps[s])}

SeqOutputs(c, s) == UNION {Range(c.opOut[o]) : o \in Range(c.seqOps[s])}

\* prevSuccs / prevPreds: the connectivity before grouping.
PrevSuccSet(c, v) ==
    IF v \in SeqVerts(c)
    THEN {t \in SeqVerts(c) \ {v} : SeqOutputs(c, v) \cap SeqInputs(c, t) # {}}
         \cup {OutVert(c, k) : k \in {j \in DOMAIN c.gout : c.gout[j] \in SeqOutputs(c, v)}}
    ELSE IF v \in InVerts(c)
    THEN {t \in SeqVerts(c) : c.gin[v - NSeq(c) - NGrp(c)] \in SeqInputs(c, t)}
    ELSE {}

PrevPredSet(c, v) == {u \in HierVerts(c) : v \in PrevSuccSet(c, u)}

prevSuccs(c, v) == SortSet(PrevSuccSet(c, v))

prevPreds(c, v) == SortSet(PrevPredSet(c, v))

\* group->seqs, and the Group a Sequence was put in (0: none).
GroupSeqs(c, g) == c.grpSeqs[g - NSeq(c)]

GroupOf(c, s) ==
    IF \E g \in GrpVerts(c) : s \in GroupSeqs(c, g)
    THEN CHOOSE g \in GrpVerts(c) : s \in GroupSeqs(c, g)
    ELSE 0

\* group->inFront / outFront: Sequences with external predecessors / successors.
inFront(c, g) == SortSet({s \in GroupSeqs(c, g) : PrevPredSet(c, s) \ GroupSeqs(c, g) # {}})

outFront(c, g) == SortSet({s \in GroupSeqs(c, g) : PrevSuccSet(c, s) \ GroupSeqs(c, g) # {}})

\* group->exits: the Sequences without a successor inside the Group.
exits(c, g) == SortSet({s \in GroupSeqs(c, g) : PrevSuccSet(c, s) \cap GroupSeqs(c, g) = {}})

GroupOps(c, g) == Flatten([i \in 1 .. Cardinality(GroupSeqs(c, g)) |->
                              c.seqOps[SortSet(GroupSeqs(c, g))[i]]])

GroupInputs(c, g) == UNION {SeqInputs(c, s) : s \in GroupSeqs(c, g)}

GroupOutputs(c, g) == UNION {SeqOutputs(c, s) : s \in GroupSeqs(c, g)}

RECURSIVE Dedup(_, _)
Dedup(s, seen) ==
    IF s = <<>> THEN <<>>
    ELSE IF Head(s) \in seen THEN Dedup(Tail(s), seen)
    ELSE <<Head(s)>> \o Dedup(Tail(s), seen \cup {Head(s)})

\* Number of input slots of the ops in list ops that read val.
UsesIn(c, ops, val) ==
    Cardinality(UNION {{<<i, j>> : j \in {k \in DOMAIN c.opIn[ops[i]] : c.opIn[ops[i]][k] = val}}
                       : i \in DOMAIN ops})

\* group->consumed: (value, uses inside the Group) for the non-PARAM values
\* the Group reads from outside, in a fixed order.
consumed(c, g) ==
    LET ops  == GroupOps(c, g)
        vals == Dedup(SelectSeq(Flatten([i \in DOMAIN ops |-> c.opIn[ops[i]]]),
                                LAMBDA v : v \notin c.param /\ v \notin GroupOutputs(c, g)),
                      {})
    IN  [i \in DOMAIN vals |-> <<vals[i], UsesIn(c, ops, vals[i])>>]

\* group->produced: (value, uses outside the Group) for the values defined in
\* the Group that are visible outside (used outside, or a graph output).
produced(c, g) ==
    LET ops  == GroupOps(c, g)
        vals == SelectSeq(Flatten([i \in DOMAIN ops |-> c.opOut[ops[i]]]),
                          LAMBDA v : NumUses(c, v) > UsesIn(c, ops, v)
                                     \/ v \in Range(c.gout))
    IN  [i \in DOMAIN vals |-> <<vals[i], NumUses(c, vals[i]) - UsesIn(c, ops, vals[i])>>]

\* The vertex that stands for v at the top level once groups are formed.
TopOf(c, v) == IF v \in SeqVerts(c) /\ GroupOf(c, v) # 0 THEN GroupOf(c, v) ELSE v

\* succs / preds after MakeGroupPass: a grouped Sequence keeps its edges inside
\* the Group; the edges that cross the Group's border belong to the Group.
InitSuccs(c, v) ==
    IF v \in GrpVerts(c)
    THEN SortSet({TopOf(c, t) : t \in UNION {PrevSuccSet(c, s) : s \in GroupSeqs(c, v)}} \ {v})
    ELSE IF v \in SeqVerts(c) /\ GroupOf(c, v) # 0
    THEN SortSet(PrevSuccSet(c, v) \cap GroupSeqs(c, GroupOf(c, v)))
    ELSE SortSet({TopOf(c, t) : t \in PrevSuccSet(c, v)})

InitPreds(c, v) ==
    IF v \in GrpVerts(c)
    THEN SortSet({TopOf(c, t) : t \in UNION {PrevPredSet(c, s) : s \in GroupSeqs(c, v)}} \ {v})
    ELSE IF v \in SeqVerts(c) /\ GroupOf(c, v) # 0
    THEN SortSet(PrevPredSet(c, v) \cap GroupSeqs(c, GroupOf(c, v)))
    ELSE SortSet({TopOf(c, t) : t \in PrevPredSet(c, v)})

\* The HierGraph handed to the scheduler: the mutable part of the vertices.
InitHier(c) ==
    [succs |-> [v \in HierVerts(c) |-> InitSuccs(c, v)],
     preds |-> [v \in HierVerts(c) |-> InitPreds(c, v)],
     group |-> [s \in SeqVerts(c) |-> GroupOf(c, s)]]

\* The hierarchical view of graph gr as the scheduler receives it: the graph,
\* the immutable fields of its vertices, and the initial edges (hier0).
HierGraph(gr) ==
    [name |-> gr.name, opIn |-> gr.opIn, opOut |-> gr.opOut, size |-> gr.size,
     param |-> gr.param, ovl |-> gr.ovl, gin |-> gr.gin, gout |-> gr.gout,
     seqOps |-> gr.seqOps,
     numUses   |-> [v \in Values(gr) |-> NumUses(gr, v)],
     defOp     |-> [v \in Values(gr) |-> DefOp(gr, v)],
     users     |-> [v \in Values(gr) |-> {o \in Ops(gr) : v \in Range(gr.opIn[o])}],
     opToSeq   |-> [o \in Ops(gr) \cup {""} |-> OpToSeq(gr, o)],
     seqVerts  |-> SeqVerts(gr),
     grpVerts  |-> GrpVerts(gr),
     inVerts   |-> InVerts(gr),
     outVerts  |-> OutVerts(gr),
     prevSuccs |-> [v \in HierVerts(gr) |-> PrevSuccSet(gr, v)],
     prevPreds |-> [v \in HierVerts(gr) |-> PrevPredSet(gr, v)],
     seqs      |-> [g \in GrpVerts(gr) |-> GroupSeqs(gr, g)],
     inFront   |-> [g \in GrpVerts(gr) |-> inFront(gr, g)],
     outFront  |-> [g \in GrpVerts(gr) |-> outFront(gr, g)],
     exits     |-> [g \in GrpVerts(gr) |-> exits(gr, g)],
     consumed  |-> [g \in GrpVerts(gr) |-> consumed(gr, g)],
     produced  |-> [g \in GrpVerts(gr) |-> produced(gr, g)],
     hier0     |-> InitHier(gr)]

\* Is<Sequence>(v), Is<Group>(v)
IsSequence(c, v) == v \in c.seqVerts

IsGroup(c, v) == v \in c.grpVerts

RECURSIVE DfsPost(_, _, _)
\* RpoIter: depth-first search along preds from the roots in todo; a vertex is
\* emitted after all its predecessors.  acc = [seen, order].
DfsPost(preds, todo, acc) ==
    IF todo = <<>> THEN acc
    ELSE LET v == Head(todo) IN
         IF v \in acc.seen THEN DfsPost(preds, Tail(todo), acc)
         ELSE LET sub == DfsPost(preds, preds[v],
                                 [seen |-> acc.seen \cup {v}, order |-> acc.order])
              IN  DfsPost(preds, Tail(todo),
                          [seen |-> sub.seen, order |-> Append(sub.order, v)])

RpoRange(preds, roots) == DfsPost(preds, roots, [seen |-> {}, order |-> <<>>]).order


(***************************************************************************)
(* Iteration order of std::unordered_map.  The order is unspecified but    *)
(* fixed for a build: ord selects one of the orders in Orders.             *)
(***************************************************************************)
Orders == {"asc", "desc"}

RECURSIVE KeyCode(_)
KeyCode(K) == IF K = {} THEN 0
              ELSE LET v == CHOOSE x \in K : TRUE IN 2 ^ v + KeyCode(K \ {v})

RECURSIVE KeysInOrder(_, _)
KeysInOrder(keys, ord) ==
    IF keys = {} THEN <<>>
    ELSE LET k == CHOOSE x \in keys :
                     \A y \in keys : IF ord = "asc" THEN KeyCode(x) <= KeyCode(y)
                                     ELSE KeyCode(x) >= KeyCode(y)
         IN  <<k>> \o KeysInOrder(keys \ {k}, ord)

MemoKeys(memo, ord) == KeysInOrder(DOMAIN memo, ord)

(***************************************************************************)
(* SchedResult / PartialSchedResult (part_000 70-97)                       *)
(***************************************************************************)
SchedResult(seq, states) == [seq |-> seq, states |-> states]

\* The SchedResult part of a larger result.
AsSchedResult(r) == SchedResult(r.seq, r.states)

PartialSchedResult(seq, states, predCnt, useCnt) ==
    [seq |-> seq, states |-> states, predCnt |-> predCnt, useCnt |-> useCnt]

\* A variant of Update with the comparison turned round.
UpdateIfHigher(this, other) ==
    IF Peak(other.states) > Peak(this.states)
    THEN [this EXCEPT !.seq = other.seq, !.states = other.states]
    ELSE this

\* A variant of Update that takes the op list and leaves the states.
UpdateSeqOnly(this, other) ==
    IF Peak(other.states) < Peak(this.states)
    THEN [this EXCEPT !.seq = other.seq]
    ELSE this

\* SchedResult::Update (76-81): only seq and states are taken from other.
Update(this, other) ==
    IF Peak(other.states) < Peak(this.states)
    THEN [this EXCEPT !.seq = other.seq, !.states = other.states]
    ELSE this

\* A variant of extractZeroIn that also moves the vertices with one
\* predecessor left.
extractZeroInEarly(predCnt, zeroIn) ==
    LET z == zeroIn \cup {v \in DOMAIN predCnt : predCnt[v] <= 1}
    IN  [zeroIn |-> z, predCnt |-> MapErase(predCnt, z)]

\* extractZeroIn (134-140); the ordered vector zeroIn is kept as a set.
extractZeroIn(predCnt, zeroIn) ==
    LET z == zeroIn \cup {v \in DOMAIN predCnt : predCnt[v] = 0}
    IN  [zeroIn |-> z, predCnt |-> MapErase(predCnt, z)]

(***************************************************************************)
(* scheduleGroupRpo (197-215)                                              *)
(***************************************************************************)
\* Lines 207-211: the result of one Sequence appended to the Group's.
ExtendResult(acc, r) ==
    [seq |-> acc.seq \o r.seq, states |-> MsvExtend(acc.states, r.states),
     useCnt |-> r.useCnt]

RECURSIVE ScheduleSeqList(_, _, _)
\* acc = [seq, states, useCnt]
ScheduleSeqList(c, verts, acc) ==
    IF verts = <<>> THEN acc
    ELSE ScheduleSeqList(c, Tail(verts),
             ExtendResult(acc, scheduleSequence(c, Head(verts), acc.useCnt)))

scheduleGroupRpo(c, h, g, useCnt) ==
    ScheduleSeqList(c, RpoRange(h.preds, c.exits[g]),
                    [seq |-> <<>>, states |-> MemStateVec(0), useCnt |-> useCnt])

(***************************************************************************)
(* updateResult (217-246)                                                  *)
(***************************************************************************)
RECURSIVE DecSuccs(_, _)
\* Line 232: predCnt[succ]-- for every successor.
DecSuccs(predCnt, succs) ==
    IF succs = <<>> THEN predCnt
    ELSE DecSuccs(MapPut(predCnt, Head(succs), Dec32(MapGet(predCnt, Head(succs)), 1)),
                  Tail(succs))

\* A variant of NewFrontier that leaves the scheduled vertex in the frontier.
NewFrontierKeepVert(h, vert, zeroIn, result) ==
    extractZeroIn(DecSuccs(result.predCnt, h.succs[vert]), zeroIn)

\* The frontier reached by scheduling vert from (zeroIn, result).
NewFrontier(h, vert, zeroIn, result) ==
    extractZeroIn(DecSuccs(result.predCnt, h.succs[vert]), zeroIn \ {vert})

\* Lines 238-245: the new partial result kept under its frontier.
Memoize(newMemo, zeroIn, newResult) ==
    IF zeroIn \in DOMAIN newMemo
    THEN [newMemo EXCEPT ![zeroIn] = Update(@, newResult)]
    ELSE MapPut(newMemo, zeroIn, newResult)

\* A variant of ExtendPartial that takes the op list of the vertex alone.
ExtendPartialAssign(result, vertResult, useCnt, ex) ==
    PartialSchedResult(vertResult.seq,
                       MsvExtend(result.states, vertResult.states), ex.predCnt, useCnt)

\* Lines 220-236, given the frontier ex = [zeroIn, predCnt] after vert.
ExtendPartial(result, vertResult, useCnt, ex) ==
    PartialSchedResult(result.seq \o vertResult.seq,
                       MsvExtend(result.states, vertResult.states), ex.predCnt, useCnt)

MemoizeAt(newMemo, result, vertResult, useCnt, ex) ==
    Memoize(newMemo, ex.zeroIn, ExtendPartial(result, vertResult, useCnt, ex))

\* Returns newMemo with the partial result memoized.
updateResult(h, vert, zeroIn, result, vertResult, useCnt, newMemo) ==
    MemoizeAt(newMemo, result, vertResult, useCnt, NewFrontier(h, vert, zeroIn, result))

(***************************************************************************)
(* scheduleGroupDp (249-281)                                               *)
(***************************************************************************)
\* Lines 271-274: vertResult = [seq, states, useCnt] of one Sequence.
GroupDpVert(h, vert, zeroIn, result, vertResult, newMemo) ==
    updateResult(h, vert, zeroIn, result, AsSchedResult(vertResult),
                 vertResult.useCnt, newMemo)

RECURSIVE GroupDpVerts(_, _, _, _, _, _)
\* Lines 270-275: one more Sequence of the frontier appended to result.
GroupDpVerts(c, h, zeroIn, verts, result, newMemo) ==
    IF verts = <<>> THEN newMemo
    ELSE GroupDpVerts(c, h, zeroIn, Tail(verts), result,
             GroupDpVert(h, Head(verts), zeroIn, result,
                         scheduleSequence(c, Head(verts), result.useCnt), newMemo))

RECURSIVE GroupDpEntries(_, _, _, _, _)
\* Lines 268-276: every partial result of the memo, in the map's order.
GroupDpEntries(c, h, memo, keys, newMemo) ==
    IF keys = <<>> THEN newMemo
    ELSE GroupDpEntries(c, h, memo, Tail(keys),
             GroupDpVerts(c, h, Head(keys), SortSet(Head(keys)), memo[Head(keys)], newMemo))

\* One iteration of the loop of lines 266-278.
GroupDpStep(c, h, memo, ord) == GroupDpEntries(c, h, memo, MemoKeys(memo, ord), EmptyMap)

RECURSIVE GroupDpLoop(_, _, _, _, _)
GroupDpLoop(c, h, memo, n, ord) ==
    IF n = 0 THEN memo ELSE GroupDpLoop(c, h, GroupDpStep(c, h, memo, ord), n - 1, ord)

\* Lines 253-262: the memo before the first step.
InitMemo(ex, initSize, useCnt) ==
    MapPut(EmptyMap, ex.zeroIn,
           PartialSchedResult(<<>>, MemStateVec(initSize), ex.predCnt, useCnt))

GroupDpInit(c, h, g, useCnt) ==
    InitMemo(extractZeroIn([s \in c.seqs[g] |-> Len(h.preds[s])], {}), 0, useCnt)

\* Line 280, memo[{}]: operator[] default-constructs a missing entry.
MemoAtEmpty(memo) ==
    IF {} \in DOMAIN memo THEN memo[{}]
    ELSE PartialSchedResult(<<>>, MemStateVec(0), EmptyMap, EmptyMap)

\* The PartialSchedResult memo[{}] after the loop of lines 264-278.
GroupDpFinal(c, h, g, useCnt, ord) ==
    MemoAtEmpty(GroupDpLoop(c, h, GroupDpInit(c, h, g, useCnt), Cardinality(c.seqs[g]), ord))

scheduleGroupDp(c, h, g, useCnt, ord) == AsSchedResult(GroupDpFinal(c, h, g, useCnt, ord))

(***************************************************************************)
(* updateGroupUseCount (283-297)                                           *)
(***************************************************************************)
RECURSIVE ReduceConsumed(_, _, _)
\* Lines 287-290.  acc = [useCnt, killed]
ReduceConsumed(cons, i, acc) ==
    IF i > Len(cons) THEN acc
    ELSE LET val == cons[i][1]
             cnt == Dec32(MapGet(acc.useCnt, val), cons[i][2])
         IN  ReduceConsumed(cons, i + 1,
                 [useCnt |-> MapPut(acc.useCnt, val, cnt),
                  killed |-> IF cnt = 0 THEN acc.killed \cup {val} ELSE acc.killed])

RECURSIVE InsertProduced(_, _)
InsertProduced(prod, useCnt) ==
    IF prod = <<>> THEN useCnt
    ELSE InsertProduced(Tail(prod), MapInsert(useCnt, Head(prod)[1], Head(prod)[2]))

\* A variant of EraseAndProduce that leaves the killed values in the map.
ProduceOnly(c, g, red) == InsertProduced(c.produced[g], red.useCnt)

\* Lines 291-295, given red = [useCnt, killed] as left by lines 287-290.
EraseAndProduce(c, g, red) ==
    InsertProduced(c.produced[g], MapErase(red.useCnt, red.killed))

updateGroupUseCount(c, g, useCnt) ==
    EraseAndProduce(c, g, ReduceConsumed(c.consumed[g], 1,
                                         [useCnt |-> useCnt, killed |-> {}]))

(***************************************************************************)
(* GroupContext (99-115).  kill[i] is 1 / 0 as in std::vector<int>; -1     *)
(* marks useCnt.at() on a missing key.                                     *)
(***************************************************************************)
GroupContext(c, g, useCnt) ==
    LET cons == c.consumed[g]
    IN  [group |-> g,
         kill  |-> [i \in DOMAIN cons |->
                      IF cons[i][1] \notin DOMAIN useCnt THEN -1
                      ELSE IF cons[i][2] = useCnt[cons[i][1]] THEN 1 ELSE 0]]

(***************************************************************************)
(* HierScheduler::scheduleVertex (355-394)                                 *)
(***************************************************************************)
\* A variant of RpoAccepted that leaves prevStates.Latest() out.
RpoAcceptedNoLatest(rpoStates, prevStates) ==
    Peak(rpoStates) <= Peak(prevStates)

\* Lines 377-378: the reverse post-order result does not lift the peak.
RpoAccepted(rpoStates, prevStates) ==
    Peak(rpoStates) + Latest(prevStates) <= Peak(prevStates)

\* A variant of MemoizedResult that keeps the reverse post-order result.
MemoizedRpoResult(dpResult, rpoResult) == rpoResult

\* Line 386: the result memoized under the context.
MemoizedResult(dpResult, rpoResult) == dpResult

\* Returns [res, useCnt, groupMemo, path, ctx]; path names the branch taken.
\* Lines 357-360: a Sequence; r = [seq, states, useCnt].
VertexIsSequence(r, groupMemo) ==
    [res |-> AsSchedResult(r), useCnt |-> r.useCnt, groupMemo |-> groupMemo,
     path |-> "seq", ctx |-> <<>>]

\* Lines 383-387: the DP result is memoized and returned; the use counts are
\* those left by the reverse post-order run.
VertexByDp(groupMemo, ctx, rpo, dpResult) ==
    [res |-> dpResult, useCnt |-> rpo.useCnt,
     groupMemo |-> MapPut(groupMemo, ctx, MemoizedResult(dpResult, AsSchedResult(rpo))),
     path |-> "dp", ctx |-> ctx]

\* Lines 375-387, rpo = [seq, states, useCnt] of scheduleGroupRpo.
VertexNotMemoized(c, h, vert, useCnt, prevStates, groupMemo, ord, ctx, rpo) ==
    IF RpoAccepted(rpo.states, prevStates)
    THEN [res |-> AsSchedResult(rpo), useCnt |-> rpo.useCnt,
          groupMemo |-> groupMemo, path |-> "rpo", ctx |-> ctx]
    ELSE VertexByDp(groupMemo, ctx, rpo, scheduleGroupDp(c, h, vert, useCnt, ord))

\* Lines 364-387, ctx = GroupContext(group, useCnt).
VertexIsGroup(c, h, vert, useCnt, prevStates, groupMemo, ord, ctx) ==
    IF ctx \in DOMAIN groupMemo
    THEN [res |-> groupMemo[ctx], useCnt |-> updateGroupUseCount(c, vert, useCnt),
          groupMemo |-> groupMemo, path |-> "hit", ctx |-> ctx]
    ELSE VertexNotMemoized(c, h, vert, useCnt, prevStates, groupMemo, ord, ctx,
                           scheduleGroupRpo(c, h, vert, useCnt))

scheduleVertex(c, h, vert, useCnt, prevStates, groupMemo, ord) ==
    IF IsSequence(c, vert)
    THEN VertexIsSequence(scheduleSequence(c, vert, useCnt), groupMemo)
    ELSE VertexIsGroup(c, h, vert, useCnt, prevStates, groupMemo, ord,
                       GroupContext(c, vert, useCnt))


(***************************************************************************)
(* HierScheduler::Schedule (305-352)                                       *)
(***************************************************************************)
\* RpoHierRange(hier) without the HierInput / HierOutput vertices: the
\* vertices that reach a graph output along preds.
TopVerts(c, h) ==
    {v \in Range(RpoRange(h.preds, SortSet(c.outVerts))) : v \notin c.inVerts \cup c.outVerts}

RECURSIVE DecInputSuccs(_, _, _)
\* Line 317: predCnt[succ]-- for the successors of every HierInput.
DecInputSuccs(h, ins, predCnt) ==
    IF ins = <<>> THEN predCnt
    ELSE DecInputSuccs(h, Tail(ins), DecSuccs(predCnt, h.succs[Head(ins)]))

RECURSIVE InsertInputs(_, _, _)
\* Lines 318-319: useCnt.insert({val, val->uses.size()}) for every input.
InsertInputs(c, ins, useCnt) ==
    IF ins = <<>> THEN useCnt
    ELSE InsertInputs(c, Tail(ins), MapInsert(useCnt, Head(ins), c.numUses[Head(ins)]))

\* Line 312: nVert = predCnt.size()
NumVert(c, h) == Cardinality(TopVerts(c, h))

\* Lines 306-331: the memo before the first step.
ScheduleInit(c, h) ==
    InitMemo(extractZeroIn(DecInputSuccs(h, SortSet(c.inVerts),
                                         [v \in TopVerts(c, h) |-> Len(h.preds[v])]),
                           {}),
             SumOver(c.size, c.gin), InsertInputs(c, c.gin, EmptyMap))

\* What one call of scheduleVertex on a Group did (kept for the properties).
CallRecord(vert, useCnt, prevStates, r) ==
    [group |-> vert, ctx |-> r.ctx, path |-> r.path, useCnt |-> useCnt,
     prevPeak |-> Peak(prevStates), prevLatest |-> Latest(prevStates), res |-> r.res,
     extPeak |-> Peak(MsvExtend(prevStates, r.res.states)), outCnt |-> r.useCnt]

\* Lines 343-345, r = what scheduleVertex returned and left.
DpVert(c, h, vert, zeroIn, result, acc, r) ==
    [newMemo   |-> updateResult(h, vert, zeroIn, result, r.res, r.useCnt, acc.newMemo),
     groupMemo |-> r.groupMemo,
     calls     |-> IF IsGroup(c, vert)
                   THEN acc.calls \cup {CallRecord(vert, result.useCnt, result.states, r)}
                   ELSE acc.calls]

RECURSIVE DpVerts(_, _, _, _, _, _, _)
\* Lines 340-346.  acc = [newMemo, groupMemo, calls]
DpVerts(c, h, zeroIn, verts, result, acc, ord) ==
    IF verts = <<>> THEN acc
    ELSE DpVerts(c, h, zeroIn, Tail(verts), result,
             DpVert(c, h, Head(verts), zeroIn, result, acc,
                    scheduleVertex(c, h, Head(verts), result.useCnt, result.states,
                                   acc.groupMemo, ord)),
             ord)

RECURSIVE DpEntries(_, _, _, _, _, _)
\* Lines 338-347.
DpEntries(c, h, memo, keys, acc, ord) ==
    IF keys = <<>> THEN acc
    ELSE DpEntries(c, h, memo, Tail(keys),
             DpVerts(c, h, Head(keys), SortSet(Head(keys)), memo[Head(keys)], acc, ord),
             ord)

\* One iteration of the loop of lines 334-349.
DpStep(c, h, memo, gm, ord) ==
    DpEntries(c, h, memo, MemoKeys(memo, ord),
              [newMemo |-> EmptyMap, groupMemo |-> gm, calls |-> {}], ord)

RECURSIVE ScheduleLoop(_, _, _, _, _, _)
\* The loop of lines 334-349 continued after a step that left r.
ScheduleNext(c, h, r, n, ord) == ScheduleLoop(c, h, r.newMemo, r.groupMemo, n, ord)

\* Lines 334-349: n iterations from a memo and a group memo.
ScheduleLoop(c, h, tab, gm, n, ord) ==
    IF n = 0 THEN tab ELSE ScheduleNext(c, h, DpStep(c, h, tab, gm, ord), n - 1, ord)

\* Lines 305-352: the op list Schedule() returns for a hierarchical graph and a
\* group memo, in a build whose unordered maps iterate in order ord.
Schedule(c, h, gm, ord) ==
    MemoAtEmpty(ScheduleLoop(c, h, ScheduleInit(c, h), gm, NumVert(c, h), ord)).seq

(***************************************************************************)
(* findEdgesToRestore (407-443) and ungroup (445-476)                      *)
(***************************************************************************)
\* util: Insert(vec, elem) into an ordered vector.
Insert(vec, elem) == SortSet(Range(vec) \cup {elem})

\* A variant of NeighborPrev that looks at the same frontier of a neighbouring
\* Group whatever the direction.
NeighborPrevOneFront(c, vert, dir) ==
    IF IsGroup(c, vert)
    THEN UNION {IF dir = "in" THEN c.prevSuccs[ns] ELSE c.prevPreds[ns]
                : ns \in Range(c.inFront[vert])}
    ELSE IF dir = "in" THEN c.prevSuccs[vert] ELSE c.prevPreds[vert]

\* The Sequences a neighbour was connected to before grouping: for a Group
\* neighbour, through its frontier Sequences (lines 418-430), else through
\* its own snapshot (432-438).  dir = "in": the neighbours are predecessors.
NeighborPrev(c, vert, dir) ==
    IF IsGroup(c, vert)
    THEN UNION {IF dir = "in" THEN c.prevSuccs[ns] ELSE c.prevPreds[ns]
                : ns \in Range(IF dir = "in" THEN c.outFront[vert] ELSE c.inFront[vert])}
    ELSE IF dir = "in" THEN c.prevSuccs[vert] ELSE c.prevPreds[vert]

RECURSIVE RestoreList(_, _, _, _, _)
\* restoreMap[front]: the neighbours to reconnect with front.
RestoreList(c, front, neighbors, dir, acc) ==
    IF neighbors = <<>> THEN acc
    ELSE LET vert == Head(neighbors)
         IN  RestoreList(c, front, Tail(neighbors), dir,
                 IF front \in NeighborPrev(c, vert, dir)
                 THEN IF IsGroup(c, vert) THEN Insert(acc, vert) ELSE Append(acc, vert)
                 ELSE acc)

findEdgesToRestore(c, frontier, neighbors, dir) ==
    [front \in Range(frontier) |-> RestoreList(c, front, neighbors, dir, <<>>)]

RECURSIVE RestoreInKeepEdge(_, _, _, _)
\* A variant of RestoreIn that leaves the edge from the neighbour to the Group.
RestoreInKeepEdge(h, g, front, restores) ==
    IF restores = <<>> THEN h
    ELSE LET n == Head(restores)
         IN  RestoreInKeepEdge([h EXCEPT !.preds[front] = AddUnique(@, n),
                                         !.succs[n] = AddUnique(@, front)],
                               g, front, Tail(restores))

RECURSIVE RestoreIn(_, _, _, _)
\* Lines 451-455 for one front.
RestoreIn(h, g, front, restores) ==
    IF restores = <<>> THEN h
    ELSE LET n == Head(restores)
         IN  RestoreIn([h EXCEPT !.preds[front] = AddUnique(@, n),
                                 !.succs[n] = AddUnique(Remove(@, g), front)],
                       g, front, Tail(restores))

RECURSIVE RestoreOut(_, _, _, _)
\* Lines 467-471 for one front.
RestoreOut(h, g, front, restores) ==
    IF restores = <<>> THEN h
    ELSE LET n == Head(restores)
         IN  RestoreOut([h EXCEPT !.succs[front] = AddUnique(@, n),
                                  !.preds[n] = AddUnique(Remove(@, g), front)],
                        g, front, Tail(restores))

RECURSIVE RestoreAllIn(_, _, _, _)
RestoreAllIn(h, g, fronts, restoreMap) ==
    IF fronts = <<>> THEN h
    ELSE RestoreAllIn(RestoreIn(h, g, Head(fronts), restoreMap[Head(fronts)]),
                      g, Tail(fronts), restoreMap)

RECURSIVE RestoreAllOut(_, _, _, _)
RestoreAllOut(h, g, fronts, restoreMap) ==
    IF fronts = <<>> THEN h
    ELSE RestoreAllOut(RestoreOut(h, g, Head(fronts), restoreMap[Head(fronts)]),
                       g, Tail(fronts), restoreMap)

\* A variant of ClearGroup that leaves the back-references in place.
KeepGroup(c, h, g) == h

\* Line 475: the group back-reference of every contained Sequence is cleared.
ClearGroup(c, h, g) ==
    [h EXCEPT !.group = [s \in DOMAIN @ |-> IF s \in c.seqs[g] THEN 0 ELSE @[s]]]

ungroup(c, h, g) ==
    LET inRestore  == findEdgesToRestore(c, c.inFront[g], h.preds[g], "in")
        h1         == RestoreAllIn(h, g, c.inFront[g], inRestore)
        outRestore == findEdgesToRestore(c, c.outFront[g], h1.succs[g], "out")
        h2         == RestoreAllOut(h1, g, c.outFront[g], outRestore)
    IN  ClearGroup(c, h2, g)


(***************************************************************************)
(* tryUngroupSucc (478-492).  The range-for of line 481 walks seq->succs   *)
(* while ungroup() erases from and appends to that vector, so the walk     *)
(* goes on over invalidated iterators.  The outcomes a build can produce:  *)
(* the storage was not reallocated and the walk goes on over the shifted   *)
(* elements up to the end computed at the start (a slot past the new end   *)
(* reads as a null reference, line 482); or an append reallocated the      *)
(* storage, and the stale slots read as null references or fault.          *)
(* The result is the set of outcomes [h, changed, crash].                  *)
(***************************************************************************)
RECURSIVE WalkSuccs(_, _, _, _, _, _, _)
WalkSuccs(c, h, seq, i, n, cap, changed) ==
    IF i > n THEN {[h |-> h, changed |-> changed, crash |-> FALSE]}
    ELSE LET cur == h.succs[seq] IN
         IF i > Len(cur) \/ ~IsGroup(c, cur[i])
         THEN WalkSuccs(c, h, seq, i + 1, n, cap, changed)
         ELSE LET h2 == ungroup(c, h, cur[i]) IN
              WalkSuccs(c, h2, seq, i + 1, n, Max2(cap, Len(h2.succs[seq])), TRUE)
              \cup (IF Len(h2.succs[seq]) > cap
                    THEN {[h |-> h2, changed |-> TRUE, crash |-> FALSE],
                          [h |-> h2, changed |-> TRUE, crash |-> TRUE]}
                    ELSE {})

tryUngroupSucc(c, h, seq) ==
    WalkSuccs(c, h, seq, 1, Len(h.succs[seq]), Len(h.succs[seq]), FALSE)

(***************************************************************************)
(* ComputeLifetime / EstimatePeak (hos/sched/life.hpp, mem.hpp;            *)
(* specification 4.2): a value is alive from the position of its definer   *)
(* (0 for a graph input) to the position of its last user (for ever if it  *)
(* is a graph output).  Positions are 1..Len(sched).                       *)
(***************************************************************************)
PosOf(sched, op) == CHOOSE i \in DOMAIN sched : sched[i] = op

IsPermutation(c, sched) ==
    Len(sched) = Cardinality(Ops(c)) /\ Range(sched) = Ops(c)

Birth(c, sched, val) == IF c.defOp[val] = "" THEN 0 ELSE PosOf(sched, c.defOp[val])

Death(c, sched, val) ==
    IF val \in Range(c.gout) THEN Len(sched) + 1
    ELSE IF c.users[val] = {} THEN Birth(c, sched, val)
    ELSE SetMax({PosOf(sched, o) : o \in c.users[val]})

AliveValues(c, sched, p) ==
    {v \in Values(c) \ c.param : Birth(c, sched, v) <= p /\ p <= Death(c, sched, v)}

RECURSIVE SumSizes(_, _)
SumSizes(c, vals) ==
    IF vals = {} THEN 0
    ELSE LET v == CHOOSE x \in vals : TRUE IN c.size[v] + SumSizes(c, vals \ {v})

SizeAt(c, sched, p) == SumSizes(c, AliveValues(c, sched, p))

EstimatePeak(c, sched) == SetMax({SizeAt(c, sched, p) : p \in DOMAIN sched})

PeakValues(c, sched) ==
    UNION {AliveValues(c, sched, p) :
             p \in {q \in DOMAIN sched : SizeAt(c, sched, q) = EstimatePeak(c, sched)}}

\* Lines 528-530: the Sequences of the definers of the peak values; a value
\* without a definer maps to the null Sequence (0).
RelSeqs(c, vals) == {c.opToSeq[c.defOp[v]] : v \in vals}


(***************************************************************************)
(* Input graphs.  Sizes marked k range over 1..MaxSize.                    *)
(***************************************************************************)
MaxSize == 3

NoOverlap(opIn) == [o \in DOMAIN opIn |-> OVERLAP_FAILED]

Graph(name, opIn, opOut, size, gin, gout, seqOps, grpSeqs) ==
    [name |-> name, opIn |-> opIn, opOut |-> opOut, size |-> size, param |-> {},
     ovl |-> NoOverlap(opIn), gin |-> gin, gout |-> gout,
     seqOps |-> seqOps, grpSeqs |-> grpSeqs]

\* S1: in -> A -> B -> C -> out, one Sequence.
ChainGraph(k) ==
    Graph("chain",
          [A |-> <<"in">>, B |-> <<"a">>, C |-> <<"b">>],
          [A |-> <<"a">>, B |-> <<"b">>, C |-> <<"c">>],
          [in |-> 1, a |-> 1, b |-> k, c |-> 1],
          <<"in">>, <<"c">>, << <<"A", "B", "C">> >>, <<>>)

\* S1 with an overlap hint on B: the output of B may reuse its input.
HintedChainGraph == [ChainGraph(1) EXCEPT !.ovl = [@ EXCEPT !["B"] = 0], !.name = "hinted"]

\* S2: diamond A -> {B, C} -> D, the two branches grouped or not.
DiamondGraph(k, grouped) ==
    Graph("diamond",
          [A |-> <<"in">>, B |-> <<"a">>, C |-> <<"a">>, D |-> <<"b", "c">>],
          [A |-> <<"a">>, B |-> <<"b">>, C |-> <<"c">>, D |-> <<"d">>],
          [in |-> 1, a |-> 1, b |-> k, c |-> 1, d |-> 1],
          <<"in">>, <<"d">>, << <<"A">>, <<"B">>, <<"C">>, <<"D">> >>,
          IF grouped THEN << {2, 3} >> ELSE <<>>)

\* S3: A -> B1 -> B2 -> B3 -> out1 and A -> C -> out2, size(c) = sc.
BranchGraph(name, sc, grouped) ==
    Graph(name,
          [A |-> <<"in">>, B1 |-> <<"a">>, B2 |-> <<"b1">>, B3 |-> <<"b2">>, C |-> <<"a">>],
          [A |-> <<"a">>, B1 |-> <<"b1">>, B2 |-> <<"b2">>, B3 |-> <<"b3">>, C |-> <<"c">>],
          [in |-> 1, a |-> 1, b1 |-> 1, b2 |-> 1, b3 |-> 1, c |-> sc],
          <<"in">>, <<"b3", "c">>, << <<"A">>, <<"B1", "B2", "B3">>, <<"C">> >>,
          IF grouped THEN << {2, 3} >> ELSE <<>>)

S3Graph == BranchGraph("S3", 10, FALSE)

\* S5: grouping {X, Y} keeps both large values x and y alive together.
RefineGraph(k) ==
    Graph("refine",
          [A |-> <<"in">>, X |-> <<"a">>, Y |-> <<"a">>, X2 |-> <<"x", "a">>,
           Y2 |-> <<"y", "a">>, J |-> <<"x2", "y2">>],
          [A |-> <<"a">>, X |-> <<"x">>, Y |-> <<"y">>, X2 |-> <<"x2">>,
           Y2 |-> <<"y2">>, J |-> <<"j">>],
          [in |-> 1, a |-> 1, x |-> k + 2, y |-> k + 2, x2 |-> 1, y2 |-> 1, j |-> 1],
          <<"in">>, <<"j">>,
          << <<"A">>, <<"X">>, <<"Y">>, <<"X2">>, <<"Y2">>, <<"J">> >>,
          << {2, 3} >>)

\* Two Groups in a row: A -> {B, C} -> D -> {E, F} -> H.
TwoGroupGraph(k) ==
    Graph("twogroups",
          [A |-> <<"in">>, B |-> <<"a">>, C |-> <<"a">>, D |-> <<"b", "c">>,
           E |-> <<"d">>, F |-> <<"d">>, H |-> <<"e", "f">>],
          [A |-> <<"a">>, B |-> <<"b">>, C |-> <<"c">>, D |-> <<"d">>,
           E |-> <<"e">>, F |-> <<"f">>, H |-> <<"h">>],
          [in |-> 1, a |-> 1, b |-> k, c |-> 2, d |-> 1, e |-> 2, f |-> k + 1, h |-> 1],
          <<"in">>, <<"h">>,
          << <<"A">>, <<"B">>, <<"C">>, <<"D">>, <<"E">>, <<"F">>, <<"H">> >>,
          << {2, 3}, {5, 6} >>)

\* Two Groups that touch: {B, C} feeds {E, F} directly.
AdjacentGraph(k) ==
    Graph("adjacent",
          [A |-> <<"in">>, B |-> <<"a">>, C |-> <<"a">>, E |-> <<"b">>,
           F |-> <<"b", "c">>, H |-> <<"e", "f">>],
          [A |-> <<"a">>, B |-> <<"b">>, C |-> <<"c">>, E |-> <<"e">>,
           F |-> <<"f">>, H |-> <<"h">>],
          [in |-> 1, a |-> 2, b |-> k + 1, c |-> 1, e |-> 1, f |-> k, h |-> 1],
          <<"in">>, <<"h">>,
          << <<"A">>, <<"B">>, <<"C">>, <<"E">>, <<"F">>, <<"H">> >>,
          << {2, 3}, {4, 5} >>)

\* Three Groups in a row, each feeding the next: {B, C, D} -> {E, F} -> {P, Q}.
\* B is the only input frontier of the first Group, C and D are its output
\* frontier.
ThreeGroupGraph(k) ==
    Graph("threegroups",
          [A |-> <<"in">>, B |-> <<"a">>, C |-> <<"b">>, D |-> <<"b">>, E |-> <<"c">>,
           F |-> <<"c", "d">>, P |-> <<"e">>, Q |-> <<"e", "f">>, J |-> <<"p", "q">>],
          [A |-> <<"a">>, B |-> <<"b">>, C |-> <<"c">>, D |-> <<"d">>, E |-> <<"e">>,
           F |-> <<"f">>, P |-> <<"p">>, Q |-> <<"q">>, J |-> <<"j">>],
          [in |-> 1, a |-> 2, b |-> k, c |-> 1, d |-> 1, e |-> 2, f |-> 1, p |-> k + 1,
           q |-> 1, j |-> 1],
          <<"in">>, <<"j">>,
          << <<"A">>, <<"B">>, <<"C">>, <<"D">>, <<"E">>, <<"F">>, <<"P">>, <<"Q">>,
             <<"J">> >>,
          << {2, 3, 4}, {5, 6}, {7, 8} >>)

\* One Sequence with two successor Groups: A -> {B, C} and A -> {E, F}.
ForkGraph(k) ==
    Graph("fork",
          [A |-> <<"in">>, B |-> <<"a">>, C |-> <<"a">>, E |-> <<"a">>, F |-> <<"a">>,
           P |-> <<"b", "c">>, Q |-> <<"e", "f">>, J |-> <<"p", "q">>],
          [A |-> <<"a">>, B |-> <<"b">>, C |-> <<"c">>, E |-> <<"e">>, F |-> <<"f">>,
           P |-> <<"p">>, Q |-> <<"q">>, J |-> <<"j">>],
          [in |-> 1, a |-> k + 1, b |-> 1, c |-> 2, e |-> 1, f |-> 1, p |-> 1, q |-> 1,
           j |-> 1],
          <<"in">>, <<"j">>,
          << <<"A">>, <<"B">>, <<"C">>, <<"E">>, <<"F">>, <<"P">>, <<"Q">>, <<"J">> >>,
          << {2, 3}, {4, 5} >>)

\* A Group of three Sequences with an inner dependency: {X, Y, Z}, Z after X, Y.
InnerGraph(k) ==
    Graph("inner",
          [A |-> <<"in">>, X |-> <<"a">>, Y |-> <<"a">>, Z |-> <<"x", "y">>,
           W |-> <<"a", "z">>],
          [A |-> <<"a">>, X |-> <<"x">>, Y |-> <<"y">>, Z |-> <<"z">>, W |-> <<"w">>],
          [in |-> 1, a |-> 2, x |-> k, y |-> 2, z |-> 1, w |-> 1],
          <<"in">>, <<"w">>,
          << <<"A">>, <<"X">>, <<"Y">>, <<"Z">>, <<"W">> >>,
          << {2, 3, 4} >>)

\* A Group {C, B1-B2} reached with much headroom right after A-P (A1 has a
\* large transient value t) and with little after F (f stays alive):
\* in -> A1 -> A2 -> {a, a2}; a -> P -> p; p -> C, p -> B1 -> B2; a2 -> F;
\* {c, b, f} -> J.
HeadroomGraph(k) ==
    Graph("headroom",
          [A1 |-> <<"in">>, A2 |-> <<"t">>, P |-> <<"a">>, C |-> <<"p">>, B1 |-> <<"p">>,
           B2 |-> <<"b1">>, F |-> <<"a2">>, J |-> <<"c", "b", "f">>],
          [A1 |-> <<"t">>, A2 |-> <<"a", "a2">>, P |-> <<"p">>, C |-> <<"c">>,
           B1 |-> <<"b1">>, B2 |-> <<"b">>, F |-> <<"f">>, J |-> <<"j">>],
          [in |-> 1, t |-> k + 3, a |-> 1, a2 |-> 1, p |-> 1, c |-> 2, b1 |-> 2, b |-> 1,
           f |-> k + 1, j |-> 1],
          <<"in">>, <<"j">>,
          << <<"A1", "A2">>, <<"P">>, <<"C">>, <<"B1", "B2">>, <<"F">>, <<"J">> >>,
          << {3, 4} >>)

\* A Group {X, Y, Z} whose op X may write its output over its input a
\* (OverlapInput(X) = 0): a is read by X and Y only, Z joins x and y.
OverlapGraph(sa, sz) ==
    [Graph("overlap",
           [A |-> <<"in">>, X |-> <<"a">>, Y |-> <<"a">>, Z |-> <<"x", "y">>,
            W |-> <<"z">>],
           [A |-> <<"a">>, X |-> <<"x">>, Y |-> <<"y">>, Z |-> <<"z">>, W |-> <<"w">>],
           [in |-> 1, a |-> sa, x |-> 1, y |-> 1, z |-> sz, w |-> 1],
           <<"in">>, <<"w">>,
           << <<"A">>, <<"X">>, <<"Y">>, <<"Z">>, <<"W">> >>,
           << {2, 3, 4} >>)
     EXCEPT !.ovl = [@ EXCEPT !["X"] = 0]]

\* One Sequence <<X, Y>>: X reads ins (over the graph inputs u and v) and may
\* carry an overlap hint, Y reads x and, if yReadsU, also u, so that u
\* outlives X.  With vParam, v is a PARAM value.
PairGraph(ins, ovlX, yReadsU, vParam, su, sx) ==
    [Graph("pair",
           [X |-> ins, Y |-> IF yReadsU THEN <<"x", "u">> ELSE <<"x">>],
           [X |-> <<"x">>, Y |-> <<"y">>],
           [u |-> su, v |-> 2, x |-> sx, y |-> 1],
           IF vParam THEN <<"u">> ELSE <<"u", "v">>, <<"y">>,
           << <<"X", "Y">> >>, <<>>)
     EXCEPT !.ovl = [@ EXCEPT !["X"] = ovlX],
            !.param = IF vParam THEN {"v"} ELSE {}]

PairInputs == {<<"u">>, <<"u", "v">>, <<"v", "u">>, <<"u", "u">>}

PairGraphs ==
    {HierGraph(PairGraph(ins, ovlX, yReadsU, vParam, su, sx)) :
        <<ins, ovlX, yReadsU, vParam, su, sx>> \in
           {t \in PairInputs \X (-1 .. 1) \X BOOLEAN \X BOOLEAN
                   \X (1 .. MaxSize) \X (1 .. MaxSize) :
               /\ t[2] < Len(t[1])
               /\ t[4] => "v" \in Range(t[1])}}

\* A Group {<<X, X2>>, <<Y>>} followed by W, which reads y and a: while the
\* Group is in place, W is the last reader of a; once it is ungrouped, W can
\* run before X, and X, the last reader of a then, may write x over a
\* (size(x) = size(a) = sa; with hint, OverlapInput(X) = 0).
LateReaderGraph(sa, sw, hint) ==
    [Graph("latereader",
           [A |-> <<"in">>, X |-> <<"a">>, X2 |-> <<"x">>, Y |-> <<"a">>,
            W |-> <<"y", "a">>, J |-> <<"x2", "w">>],
           [A |-> <<"a">>, X |-> <<"x">>, X2 |-> <<"x2">>, Y |-> <<"y">>, W |-> <<"w">>,
            J |-> <<"j">>],
           [in |-> 1, a |-> sa, x |-> sa, x2 |-> 1, y |-> 1, w |-> sw, j |-> 1],
           <<"in">>, <<"j">>,
           << <<"A">>, <<"X", "X2">>, <<"Y">>, <<"W">>, <<"J">> >>,
           << {2, 3} >>)
     EXCEPT !.ovl = [@ EXCEPT !["X"] = IF hint THEN 0 ELSE OVERLAP_FAILED]]

LateReaderGraphs ==
    {HierGraph(LateReaderGraph(t[1], t[2], t[3]))
        : t \in (1 .. MaxSize) \X (1 .. MaxSize) \X BOOLEAN}

\* The graphs whose Groups are scheduled in isolation.
GroupGraphs ==
    {HierGraph(gr) : gr \in
        UNION {{DiamondGraph(k, TRUE), RefineGraph(k), InnerGraph(k), TwoGroupGraph(k)}
               : k \in 1 .. MaxSize}
        \cup {OverlapGraph(sa, sz) : sa \in 1 .. MaxSize, sz \in 1 .. MaxSize}}

RawGraphs ==
    {S3Graph}
    \cup UNION {{ChainGraph(k), DiamondGraph(k, TRUE), DiamondGraph(k, FALSE),
                 BranchGraph("branch", k, TRUE), BranchGraph("branch", k, FALSE),
                 RefineGraph(k), TwoGroupGraph(k), AdjacentGraph(k), ForkGraph(k),
                 InnerGraph(k), HeadroomGraph(k), OverlapGraph(k, 2), ThreeGroupGraph(k)}
               : k \in 1 .. MaxSize}

Graphs == {HierGraph(gr) : gr \in RawGraphs}

(***************************************************************************)
(* State                                                                   *)
(***************************************************************************)
VARIABLES
    cs,             \* the graph given to HierarchicalSchedule
    ord,            \* the iteration order of the unordered maps of this build
    hier,           \* the hierarchical graph (mutated by ungroup)
    groupMemo,      \* GroupContext -> SchedResult, shared by all iterations
    pc,             \* position in HierarchicalSchedule
    memo,           \* frontier -> PartialSchedResult of the running Schedule()
    step,           \* loop counter i of Schedule()
    nVert,          \* nVert of Schedule()
    calls,          \* the Group dispatches of the last DP step
    sched,          \* the op list returned by the last Schedule()
    peak,           \* peak of the current iteration
    peakValues,     \* peakValues of the current iteration
    pending,        \* the part of relSeqs not yet visited
    changed,        \* changed of the current iteration
    lastSched, lastPeak, lastPeakValues,
    iter,           \* number of the current outer iteration
    allCalls,       \* history: every Group dispatch so far, as [ctx, path, res]
    history,        \* history: per analysed iteration, [peak, ungrouped]
    gdp,            \* a Group scheduled in isolation: [g, useCnt, pc, res]
    cand,           \* a topological order of that Group, evaluated step by step
    ungroupOrder,   \* the Groups ungrouped so far, when ungroup runs on its own
    seqRun,         \* a running scheduleSequence: [pos, st, log]
    tryRun          \* the last tryUngroupSucc run on its own: [seq, before, changed, crash]

loopVars == <<groupMemo, pc, memo, step, nVert, calls, sched, peak, peakValues, pending,
              changed, lastSched, lastPeak, lastPeakValues, iter, allCalls, history>>

groupVars == <<gdp, cand, seqRun, tryRun>>

vars == <<cs, ord, hier, loopVars, groupVars, ungroupOrder>>

\* No scheduleSequence is running on its own.
NoSeqRun == [pos |-> 0, st |-> [seq |-> <<>>, states |-> MemStateVec(0), useCnt |-> EmptyMap],
             log |-> <<>>]

\* No tryUngroupSucc has run on its own.
NoTryRun == [seq |-> 0, before |-> EmptyMap, changed |-> FALSE, crash |-> FALSE]

\* The Groups that have been ungrouped.
Ungrouped == {g \in cs.grpVerts : \A s \in cs.seqs[g] : hier.group[s] = 0}

\* Lines 496-505: the state before the first iteration.
InitWith(graphs) ==
    /\ cs \in graphs
    /\ ord \in Orders
    /\ hier = cs.hier0
    /\ groupMemo = EmptyMap
    /\ pc = "idle"
    /\ memo = EmptyMap
    /\ step = 0
    /\ nVert = 0
    /\ calls = {}
    /\ sched = <<>>
    /\ peak = 0
    /\ peakValues = {}
    /\ pending = {}
    /\ changed = FALSE
    /\ lastSched = <<>>
    /\ lastPeak = UINT64_MAX
    /\ lastPeakValues = {}
    /\ iter = 1
    /\ allCalls = {}
    /\ history = <<>>
    /\ gdp = [g |-> 0, useCnt |-> EmptyMap, pc |-> "none", res |-> SchedResult(<<>>, MemStateVec(0))]
    /\ cand = [order |-> <<>>, seq |-> <<>>, states |-> MemStateVec(0), useCnt |-> EmptyMap]
    /\ ungroupOrder = <<>>
    /\ seqRun = NoSeqRun
    /\ tryRun = NoTryRun

Init == InitWith(Graphs)

\* Schedule(), lines 306-331.
StartSchedule ==
    /\ pc = "idle"
    /\ memo' = ScheduleInit(cs, hier)
    /\ nVert' = NumVert(cs, hier)
    /\ step' = 0
    /\ calls' = {}
    /\ pc' = "dp"
    /\ UNCHANGED <<cs, ord, hier, groupMemo, sched, peak, peakValues, pending, changed,
                   lastSched, lastPeak, lastPeakValues, iter, allCalls, history,
                   groupVars, ungroupOrder>>

\* Schedule(), one iteration of the loop of lines 334-349.
StepSchedule ==
    /\ pc = "dp"
    /\ step < nVert
    /\ \E r \in {DpStep(cs, hier, memo, groupMemo, ord)} :
           /\ memo' = r.newMemo
           /\ groupMemo' = r.groupMemo
           /\ calls' = r.calls
           /\ allCalls' = allCalls \cup {[ctx |-> k.ctx, path |-> k.path, res |-> k.res]
                                         : k \in r.calls}
    /\ step' = step + 1
    /\ UNCHANGED <<cs, ord, hier, pc, nVert, sched, peak, peakValues, pending, changed,
                   lastSched, lastPeak, lastPeakValues, iter, history, groupVars,
                   ungroupOrder>>

\* Schedule(), line 351: return memo[{}].seq.
ReturnSchedule ==
    /\ pc = "dp"
    /\ step = nVert
    /\ sched' = MemoAtEmpty(memo).seq
    /\ pc' = "analyze"
    /\ UNCHANGED <<cs, ord, hier, groupMemo, memo, step, nVert, calls, peak, peakValues,
                   pending, changed, lastSched, lastPeak, lastPeakValues, iter, allCalls,
                   history, groupVars, ungroupOrder>>

\* Lines 510-533: lifetimes, peak, peak values and the related Sequences.
\* ComputeLifetime asserts that sched holds every op; line 522 asserts that
\* some value is alive at the peak.
Analyze ==
    /\ pc = "analyze"
    /\ IF ~IsPermutation(cs, sched) \/ PeakValues(cs, sched) = {}
       THEN /\ pc' = "fatal"
            /\ UNCHANGED <<peak, peakValues, pending, changed, history>>
       ELSE /\ peak' = EstimatePeak(cs, sched)
            /\ peakValues' = PeakValues(cs, sched)
            /\ pending' = RelSeqs(cs, PeakValues(cs, sched))
            /\ changed' = FALSE
            /\ history' = Append(history, [peak |-> EstimatePeak(cs, sched),
                                           ungrouped |-> Ungrouped])
            /\ pc' = "ungroup"
    /\ UNCHANGED <<cs, ord, hier, groupMemo, memo, step, nVert, calls, sched,
                   lastSched, lastPeak, lastPeakValues, iter, allCalls, groupVars,
                   ungroupOrder>>

\* Lines 534-544, one Sequence of relSeqs (an unordered set).  The null
\* Sequence is dereferenced at line 536.
UngroupSeq ==
    /\ pc = "ungroup"
    /\ \E seq \in pending :
         IF seq = 0
         THEN /\ pc' = "crashed"
              /\ UNCHANGED <<hier, changed, pending>>
         ELSE LET g  == hier.group[seq]
                  h1 == IF g # 0 THEN ungroup(cs, hier, g) ELSE hier
              IN  \E out \in tryUngroupSucc(cs, h1, seq) :
                     /\ hier' = out.h
                     /\ changed' = (changed \/ g # 0 \/ out.changed)
                     /\ pending' = pending \ {seq}
                     /\ pc' = IF out.crash THEN "crashed" ELSE "ungroup"
    /\ UNCHANGED <<cs, ord, groupMemo, memo, step, nVert, calls, sched, peak, peakValues,
                   lastSched, lastPeak, lastPeakValues, iter, allCalls, history,
                   groupVars, ungroupOrder>>

\* Lines 546-553 and 556: leave the loop with lastSched, or go round again.
EndIteration ==
    /\ pc = "ungroup"
    /\ pending = {}
    /\ IF peak = lastPeak /\ peakValues = lastPeakValues /\ ~changed
       THEN /\ pc' = "done"
            /\ UNCHANGED <<lastSched, lastPeak, lastPeakValues, iter>>
       ELSE /\ lastSched' = sched
            /\ lastPeak' = peak
            /\ lastPeakValues' = peakValues
            /\ iter' = iter + 1
            /\ pc' = "idle"
    /\ UNCHANGED <<cs, ord, hier, groupMemo, memo, step, nVert, calls, sched, peak,
                   peakValues, pending, changed, allCalls, history, groupVars,
                   ungroupOrder>>

Next ==
    \/ StartSchedule
    \/ StepSchedule
    \/ ReturnSchedule
    \/ Analyze
    \/ UngroupSeq
    \/ EndIteration

Spec == Init /\ [][Next]_vars

\* HierarchicalSchedule on the graphs with a late reader.
InitLate == InitWith(LateReaderGraphs)

SpecLate == InitLate /\ [][Next]_vars

(***************************************************************************)
(* A Group scheduled in isolation by scheduleGroupDp, next to the          *)
(* topological orders of its Sequences evaluated with scheduleSequence.    *)
(***************************************************************************)
\* The use counts a Group can meet: every consumed value still has all its
\* uses, or (late) only the uses inside the Group are left.
AmbientUseCnt(c, g, late) ==
    [v \in {c.consumed[g][i][1] : i \in DOMAIN c.consumed[g]} |->
        IF late
        THEN c.consumed[g][CHOOSE i \in DOMAIN c.consumed[g] : c.consumed[g][i][1] = v][2]
        ELSE c.numUses[v]]

InitGroup ==
    /\ cs \in GroupGraphs
    /\ ord \in Orders
    /\ hier = cs.hier0
    /\ \E g \in cs.grpVerts, late \in BOOLEAN :
          /\ gdp = [g |-> g, useCnt |-> AmbientUseCnt(cs, g, late), pc |-> "start",
                    res |-> SchedResult(<<>>, MemStateVec(0))]
          /\ cand = [order |-> <<>>, seq |-> <<>>, states |-> MemStateVec(0),
                     useCnt |-> AmbientUseCnt(cs, g, late)]
    /\ groupMemo = EmptyMap
    /\ pc = "idle"
    /\ memo = EmptyMap
    /\ step = 0
    /\ nVert = 0
    /\ calls = {}
    /\ sched = <<>>
    /\ peak = 0
    /\ peakValues = {}
    /\ pending = {}
    /\ changed = FALSE
    /\ lastSched = <<>>
    /\ lastPeak = UINT64_MAX
    /\ lastPeakValues = {}
    /\ iter = 1
    /\ allCalls = {}
    /\ history = <<>>
    /\ ungroupOrder = <<>>
    /\ seqRun = NoSeqRun
    /\ tryRun = NoTryRun

\* scheduleGroupDp(group, useCnt) of lines 249-281.
RunGroupDp ==
    /\ gdp.pc = "start"
    /\ gdp' = [gdp EXCEPT !.pc = "returned",
                          !.res = scheduleGroupDp(cs, hier, gdp.g, gdp.useCnt, ord)]
    /\ UNCHANGED <<cs, ord, hier, loopVars, cand, seqRun, tryRun, ungroupOrder>>

\* One more Sequence of the Group, all of whose predecessors in the Group are
\* in the order already, is scheduled by scheduleSequence and appended.
ExtendOrder ==
    /\ \E s \in cs.seqs[gdp.g] \ Range(cand.order) :
          /\ Range(hier.preds[s]) \subseteq Range(cand.order)
          /\ \E r \in {ExtendResult(cand, scheduleSequence(cs, s, cand.useCnt))} :
                cand' = [order |-> Append(cand.order, s), seq |-> r.seq,
                         states |-> r.states, useCnt |-> r.useCnt]
    /\ UNCHANGED <<cs, ord, hier, loopVars, gdp, seqRun, tryRun, ungroupOrder>>

NextGroup == RunGroupDp \/ ExtendOrder

SpecGroup == InitGroup /\ [][NextGroup]_vars

(***************************************************************************)
(* scheduleSequence on its own, op by op, on the Sequence of a PairGraph    *)
(* or of a chain, from the use counts of the graph inputs.  log keeps, per *)
(* op, what lines 150-178 computed.                                        *)
(***************************************************************************)
InitSeq ==
    /\ cs \in PairGraphs \cup {HierGraph(ChainGraph(1)), HierGraph(HintedChainGraph)}
    /\ ord = "asc"
    /\ hier = cs.hier0
    /\ seqRun = [pos |-> 0,
                 st  |-> [seq |-> cs.seqOps[1], states |-> MemStateVec(0),
                          useCnt |-> InsertInputs(cs, cs.gin, EmptyMap)],
                 log |-> <<>>]
    /\ tryRun = NoTryRun
    /\ ungroupOrder = <<>>
    /\ gdp = [g |-> 0, useCnt |-> EmptyMap, pc |-> "none", res |-> SchedResult(<<>>, MemStateVec(0))]
    /\ cand = [order |-> <<>>, seq |-> <<>>, states |-> MemStateVec(0), useCnt |-> EmptyMap]
    /\ groupMemo = EmptyMap
    /\ pc = "idle"
    /\ memo = EmptyMap
    /\ step = 0
    /\ nVert = 0
    /\ calls = {}
    /\ sched = <<>>
    /\ peak = 0
    /\ peakValues = {}
    /\ pending = {}
    /\ changed = FALSE
    /\ lastSched = <<>>
    /\ lastPeak = UINT64_MAX
    /\ lastPeakValues = {}
    /\ iter = 1
    /\ allCalls = {}
    /\ history = <<>>

\* What lines 150-178 computed for op, given cons as left by lines 150-155.
SeqLogEntry(c, op, before, cons, ovlIdx) ==
    [op |-> op, before |-> before, killed |-> cons.killed, ovlIdx |-> ovlIdx,
     inc |-> OpInc(c, op, ovlIdx),
     dec |-> OpDec(c, op, cons.killed, OvlVal(c, op, ovlIdx))]

\* One iteration of the loop of lines 148-189.
ScheduleNextOp ==
    /\ seqRun.pos < Len(cs.seqOps[1])
    /\ \E op \in {cs.seqOps[1][seqRun.pos + 1]} :
       \E cons \in {ConsumeInputs(cs, cs.opIn[op], 1,
                                   [useCnt |-> seqRun.st.useCnt, killed |-> <<>>])} :
          seqRun' = [pos |-> seqRun.pos + 1,
                     st  |-> ScheduleOp(cs, op, seqRun.st),
                     log |-> Append(seqRun.log,
                                    SeqLogEntry(cs, op, seqRun.st.useCnt, cons,
                                                OvlIdx(cs, op, cons.killed)))]
    /\ UNCHANGED <<cs, ord, hier, loopVars, gdp, cand, tryRun, ungroupOrder>>

NextSeq == ScheduleNextOp

SpecSeq == InitSeq /\ [][NextSeq]_vars

(***************************************************************************)
(* ungroup on its own: the Groups of a graph are ungrouped in any order.   *)
(***************************************************************************)
InitUngroup ==
    /\ cs \in {c \in Graphs : c.grpVerts # {}}
    /\ ord = "asc"
    /\ hier = cs.hier0
    /\ ungroupOrder = <<>>
    /\ seqRun = NoSeqRun
    /\ tryRun = NoTryRun
    /\ gdp = [g |-> 0, useCnt |-> EmptyMap, pc |-> "none", res |-> SchedResult(<<>>, MemStateVec(0))]
    /\ cand = [order |-> <<>>, seq |-> <<>>, states |-> MemStateVec(0), useCnt |-> EmptyMap]
    /\ groupMemo = EmptyMap
    /\ pc = "idle"
    /\ memo = EmptyMap
    /\ step = 0
    /\ nVert = 0
    /\ calls = {}
    /\ sched = <<>>
    /\ peak = 0
    /\ peakValues = {}
    /\ pending = {}
    /\ changed = FALSE
    /\ lastSched = <<>>
    /\ lastPeak = UINT64_MAX
    /\ lastPeakValues = {}
    /\ iter = 1
    /\ allCalls = {}
    /\ history = <<>>

\* ungroup(group) of lines 445-476 on a Group that is still in place.
UngroupAny ==
    /\ \E g \in cs.grpVerts \ Range(ungroupOrder) :
          /\ hier' = ungroup(cs, hier, g)
          /\ ungroupOrder' = Append(ungroupOrder, g)
    /\ UNCHANGED <<cs, ord, loopVars, groupVars>>

NextUngroup == UngroupAny

SpecUngroup == InitUngroup /\ [][NextUngroup]_vars

(***************************************************************************)
(* tryUngroupSucc on its own: it is called on any Sequence of a graph that *)
(* still has its Groups, and again on the graph it leaves.                 *)
(***************************************************************************)
\* tryUngroupSucc(seq) of lines 478-492; a crashed run ends the program.
TryUngroupAt ==
    /\ ~tryRun.crash
    /\ \E seq \in cs.seqVerts :
          \E out \in tryUngroupSucc(cs, hier, seq) :
             /\ hier' = out.h
             /\ tryRun' = [seq |-> seq, before |-> hier, changed |-> out.changed,
                           crash |-> out.crash]
    /\ UNCHANGED <<cs, ord, loopVars, gdp, cand, seqRun, ungroupOrder>>

NextTry == TryUngroupAt

SpecTry == InitUngroup /\ [][NextTry]_vars

(***************************************************************************)
(* Schedule() on its own, also on hierarchical graphs that are not wired   *)
(* as the passes wire them: one more edge between two Sequences of the     *)
(* same level, which may close a cycle.                                    *)
(***************************************************************************)
AddEdge(h, u, v) ==
    [h EXCEPT !.succs[u] = Append(@, v), !.preds[v] = Append(@, u)]

Wirings(c) ==
    {c.hier0} \cup
    {AddEdge(c.hier0, u, v) :
        <<u, v>> \in {e \in c.seqVerts \X c.seqVerts :
                        /\ e[1] # e[2]
                        /\ c.hier0.group[e[1]] = c.hier0.group[e[2]]
                        /\ e[2] \notin Range(c.hier0.succs[e[1]])}}

InitSched ==
    /\ cs \in Graphs
    /\ ord = "asc"
    /\ hier \in Wirings(cs)
    /\ ungroupOrder = <<>>
    /\ seqRun = NoSeqRun
    /\ tryRun = NoTryRun
    /\ gdp = [g |-> 0, useCnt |-> EmptyMap, pc |-> "none", res |-> SchedResult(<<>>, MemStateVec(0))]
    /\ cand = [order |-> <<>>, seq |-> <<>>, states |-> MemStateVec(0), useCnt |-> EmptyMap]
    /\ groupMemo = EmptyMap
    /\ pc = "idle"
    /\ memo = EmptyMap
    /\ step = 0
    /\ nVert = 0
    /\ calls = {}
    /\ sched = <<>>
    /\ peak = 0
    /\ peakValues = {}
    /\ pending = {}
    /\ changed = FALSE
    /\ lastSched = <<>>
    /\ lastPeak = UINT64_MAX
    /\ lastPeakValues = {}
    /\ iter = 1
    /\ allCalls = {}
    /\ history = <<>>

NextSched == StartSchedule \/ StepSchedule \/ ReturnSchedule

SpecSched == InitSched /\ [][NextSched]_vars

(***************************************************************************)
(* Properties                                                              *)
(***************************************************************************)
\* The op list s puts every op-to-op dependency of graph c in order.
IsTopological(c, s) ==
    \A e \in OpEdges(c) :
        /\ e[1] \in Range(s)
        /\ e[2] \in Range(s)
        /\ PosOf(s, e[1]) < PosOf(s, e[2])

\* Positions of HierarchicalSchedule at which sched holds a returned schedule.
HasSched == pc \in {"analyze", "ungroup", "done", "crashed", "fatal"}

\* C1: the op list of every inner schedule, and the op list that
\* HierarchicalSchedule returns, put u before v for every op-to-op edge
\* u -> v of the graph, also after Groups have been ungrouped.
C1_TopologicalOrder ==
    /\ HasSched => IsTopological(cs, sched)
    /\ pc = "done" => IsTopological(cs, lastSched)

\* C1 witness: a schedule returned after a Group was ungrouped, for a graph
\* with dependencies.
C1_Witness ==
    /\ pc = "done"
    /\ Ungrouped # {}
    /\ OpEdges(cs) # {}
    /\ Len(lastSched) >= 4

\* C2: the op list of every inner schedule, and the op list that
\* HierarchicalSchedule returns, hold every op of the graph exactly once.
C2_Complete ==
    /\ HasSched => IsPermutation(cs, sched)
    /\ pc = "done" => IsPermutation(cs, lastSched)

\* C2 witness: the third inner schedule of a graph of eight ops has been
\* returned, after both Groups were ungrouped.
C2_Witness ==
    /\ pc = "done"
    /\ iter = 3
    /\ Cardinality(Ungrouped) = 2
    /\ Len(lastSched) = 8

\* C4: two dispatches of scheduleVertex on a Group with equal GroupContext
\* return equal SchedResults, whatever path (reverse post-order, DP, memo
\* hit) each of them took.
C4_EqualContextEqualResult ==
    \A x \in allCalls, y \in allCalls : x.ctx = y.ctx => x.res = y.res

\* C4 as the code has it: the dispatches that did not return the reverse
\* post-order result (DP path or memo hit) agree on equal GroupContext.
C4_EqualContextEqualResultNoRpo ==
    \A x \in allCalls, y \in allCalls :
        (x.ctx = y.ctx /\ x.path # "rpo" /\ y.path # "rpo") => x.res = y.res

\* C4 witness: a GroupContext scheduled by DP was met again and answered
\* from groupMemo.
C4_Witness ==
    \E x \in allCalls, y \in allCalls :
        /\ x.ctx = y.ctx
        /\ x.path = "dp"
        /\ y.path = "hit"
        /\ Len(x.res.seq) >= 2

C7_RpoKeepsOuterPeak ==
    \A r \in calls :
        r.path = "rpo" =>
            /\ r.extPeak = Max2(r.prevPeak, r.prevLatest + Peak(r.res.states))
            /\ r.extPeak = r.prevPeak

\* C7 witness: a reverse post-order result of several ops with a peak of its
\* own was accepted on top of a non-trivial outer schedule.
C7_Witness ==
    \E r \in calls :
        /\ r.path = "rpo"
        /\ Len(r.res.seq) >= 2
        /\ Peak(r.res.states) >= 2
        /\ r.prevLatest >= 1

\* The Sequences a top-level unit stands for.
Members(c, u) == IF IsGroup(c, u) THEN c.seqs[u] ELSE {u}

\* The units of the top level: the Sequences outside any Group, the Groups
\* still in place, the HierInputs and the HierOutputs.
TopUnits(c, h) ==
    {v \in DOMAIN h.succs :
        IF IsSequence(c, v) THEN h.group[v] = 0
        ELSE IF IsGroup(c, v) THEN \A s \in c.seqs[v] : h.group[s] = v
        ELSE TRUE}

\* Some op (or graph input) of unit u feeds some op (or graph output) of v.
Feeds(c, u, v) == \E s \in Members(c, u), t \in Members(c, v) : t \in c.prevSuccs[s]

\* The edges among the top-level units are exactly the dependencies of the
\* graph, each held once, in both directions.
FlatteningKept(c, h) ==
    \A u \in TopUnits(c, h) :
        /\ Range(h.succs[u]) = {v \in TopUnits(c, h) \ {u} : Feeds(c, u, v)}
        /\ Range(h.preds[u]) = {v \in TopUnits(c, h) \ {u} : Feeds(c, v, u)}
        /\ Len(h.succs[u]) = Cardinality(Range(h.succs[u]))
        /\ Len(h.preds[u]) = Cardinality(Range(h.preds[u]))

\* The Sequences inside a Group still in place keep their inner edges.
InnerEdgesKept(c, h) ==
    \A g \in TopUnits(c, h) \cap c.grpVerts : \A s \in c.seqs[g] :
        /\ Range(h.succs[s]) = c.prevSuccs[s] \cap c.seqs[g]
        /\ Range(h.preds[s]) = c.prevPreds[s] \cap c.seqs[g]

RECURSIVE NoCycle(_, _)
\* Units without a predecessor among the units left are removed until none
\* is left; a cycle leaves units that cannot be removed.
NoCycle(h, units) ==
    IF units = {} THEN TRUE
    ELSE LET free == {u \in units : Range(h.preds[u]) \cap units = {}}
         IN  free # {} /\ NoCycle(h, units \ free)

\* C8: after ungroup(G), for the Groups ungrouped in any order, the
\* hierarchical graph is acyclic and its top-level edges are exactly the
\* dependencies of the original graph: none lost, none invented.
C8_UngroupKeepsFlattening ==
    /\ NoCycle(hier, TopUnits(cs, hier))
    /\ FlatteningKept(cs, hier)
    /\ InnerEdgesKept(cs, hier)

\* C8 witness: a Group was ungrouped after a neighbouring Group that feeds it
\* or is fed by it, and a third Group is still in place.
C8_Witness ==
    /\ Len(ungroupOrder) = 2
    /\ cs.name = "threegroups"
    /\ \E s \in cs.seqs[ungroupOrder[1]], t \in cs.seqs[ungroupOrder[2]] :
          t \in cs.prevSuccs[s] \/ s \in cs.prevSuccs[t]

\* C9: Schedule() never returns an incomplete or empty op list: what it
\* returns at line 351 holds every op of the graph once, and what
\* scheduleGroupDp returns at line 280 holds every op of the Group once.
C9_ReturnsCompleteSchedule ==
    /\ pc = "analyze" => IsPermutation(cs, sched)
    /\ \A k \in allCalls :
          k.path = "dp" =>
             Len(k.res.seq) = Cardinality(UNION {Range(cs.seqOps[s]) : s \in cs.seqs[k.ctx.group]})

\* C9 witness: Schedule() has returned for a hierarchical graph with a cycle.
C9_Witness ==
    /\ pc = "analyze"
    /\ ~NoCycle(hier, cs.seqVerts)

\* Scenario S3: Sequence 1 is <<A>>, 2 is <<B1, B2, B3>>, 3 is <<C>>.
S3BranchFirst == <<"A", "B1", "B2", "B3", "C">>

S3BigFirst == <<"A", "C", "B1", "B2", "B3">>

\* The peak of the memory states the scheduler computes for the Sequences of
\* c taken in the given order, from the state Schedule() starts with.
MsvPeakOf(c, seqOrder) ==
    Peak(ScheduleSeqList(c, seqOrder,
                         [seq |-> <<>>, states |-> MemStateVec(SumOver(c.size, c.gin)),
                          useCnt |-> InsertInputs(c, c.gin, EmptyMap)]).states)

\* C10 as amended: in scenario S3 both orders have peak 12, by the
\* scheduler's memory states and by the lifetime estimate alike (the output
\* of A is alive while C runs, whichever branch goes first); the scheduler
\* emits one of the two orders and reports peak 12.
C10_S3BothOrdersPeakTwelve ==
    cs.name = "S3" =>
        /\ MsvPeakOf(cs, <<1, 2, 3>>) = 12
        /\ MsvPeakOf(cs, <<1, 3, 2>>) = 12
        /\ EstimatePeak(cs, S3BranchFirst) = 12
        /\ EstimatePeak(cs, S3BigFirst) = 12
        /\ HasSched => sched \in {S3BranchFirst, S3BigFirst}
        /\ pc \in {"ungroup", "done"} => peak = 12
        /\ pc = "done" => lastSched \in {S3BranchFirst, S3BigFirst}

\* C10 as stated: in scenario S3 the scheduler emits B1, B2, B3 before C,
\* that order has peak 11 and the opposite order has peak 12.
C10_S3BranchFirstPeakEleven ==
    (cs.name = "S3" /\ pc = "done") =>
        /\ lastSched = S3BranchFirst
        /\ EstimatePeak(cs, S3BranchFirst) = 11
        /\ EstimatePeak(cs, S3BigFirst) = 12

\* C10 witness: the scheduler has finished scenario S3, emitted C before
\* B1, B2, B3 and reported peak 12.
C10_Witness ==
    /\ cs.name = "S3"
    /\ pc = "done"
    /\ lastSched = S3BigFirst
    /\ lastPeak = 12

\* A scheduleSequence run on its own has gone through its Sequence.
SeqReturned == seqRun.pos > 0 /\ seqRun.pos = Len(cs.seqOps[1])

\* The memory states of the run, on top of the sizes of the graph inputs
\* (as Schedule() extends its initial states by them).
SeqRunStates == MsvExtend(MemStateVec(SumOver(cs.size, cs.gin)), seqRun.st.states)

\* C11 as amended: in scenario S1 the schedule is A, B, C and the peak of
\* its memory states is 2; with an overlap hint on B the step of B adds
\* nothing (transient 1), but the peak of the whole schedule is still 2,
\* reached at A and at C.
C11_S1HintKeepsPeakTwo ==
    (SeqReturned /\ cs.name \in {"chain", "hinted"}) =>
        /\ seqRun.st.seq = <<"A", "B", "C">>
        /\ Peak(SeqRunStates) = 2
        /\ SeqRunStates.trans[1] = 2
        /\ SeqRunStates.trans[3] = 2
        /\ SeqRunStates.trans[2] = IF cs.name = "hinted" THEN 1 ELSE 2

\* C11 as stated: in scenario S1 the peak is 2, and 1 if B carries an
\* overlap hint.
C11_S1HintLowersPeakToOne ==
    (SeqReturned /\ cs.name \in {"chain", "hinted"}) =>
        /\ seqRun.st.seq = <<"A", "B", "C">>
        /\ Peak(SeqRunStates) = IF cs.name = "hinted" THEN 1 ELSE 2

\* C11 witness: the chain with the hint on B has been scheduled and the
\* overlap was accepted at B.
C11_Witness ==
    /\ SeqReturned
    /\ cs.name = "hinted"
    /\ seqRun.log[2].op = "B"
    /\ seqRun.log[2].ovlIdx = 0

\* The input an accepted overlap is about: the one at the accepted index.
OverlappedInput(c, e) ==
    IF e.ovlIdx = OVERLAP_FAILED THEN {} ELSE {c.opIn[e.op][e.ovlIdx + 1]}

\* C12: at every op, dec is the sum of the sizes of the killed non-PARAM
\* inputs without the overlapped input, the overlapped input being the one
\* at the accepted index j, whatever j is.
C12_DecLeavesOutOverlappedInput ==
    \A i \in DOMAIN seqRun.log :
        seqRun.log[i].dec =
            SumSizes(cs, (Range(seqRun.log[i].killed) \ cs.param)
                         \ OverlappedInput(cs, seqRun.log[i]))

\* C12 witness: an overlap with the second input (j = 1) was accepted at an
\* op whose first input is a different value.
C12_Witness ==
    \E i \in DOMAIN seqRun.log :
        /\ seqRun.log[i].ovlIdx = 1
        /\ cs.opIn[seqRun.log[i].op][1] # cs.opIn[seqRun.log[i].op][2]

\* The input the trait proposes for op.
ProposedInput(c, op) == c.opIn[op][c.ovl[op] + 1]

\* The uses of val that are left after op has read it: the count before op
\* less one for every input slot of op that holds val.
UsesLeftAfter(c, e, val) ==
    MapGet(e.before, val) - Cardinality({k \in DOMAIN c.opIn[e.op] : c.opIn[e.op][k] = val})

\* C13: an overlap proposed for input j is accepted at an op only if the use
\* count of input j reaches zero at this op; if uses are left after the op,
\* the overlap is rejected and inc is the sum of the sizes of the outputs.
C13_OverlapOnlyWhenKilledHere ==
    \A i \in DOMAIN seqRun.log :
        cs.ovl[seqRun.log[i].op] # OVERLAP_FAILED =>
            /\ seqRun.log[i].ovlIdx # OVERLAP_FAILED =>
                  /\ seqRun.log[i].ovlIdx = cs.ovl[seqRun.log[i].op]
                  /\ ProposedInput(cs, seqRun.log[i].op) \notin cs.param
                  /\ UsesLeftAfter(cs, seqRun.log[i],
                                   ProposedInput(cs, seqRun.log[i].op)) = 0
            /\ UsesLeftAfter(cs, seqRun.log[i], ProposedInput(cs, seqRun.log[i].op)) > 0 =>
                  /\ seqRun.log[i].ovlIdx = OVERLAP_FAILED
                  /\ seqRun.log[i].inc = SumOver(cs.size, cs.opOut[seqRun.log[i].op])

\* C13 witness: an overlap was proposed for an input that a later op still
\* reads, and was rejected.
C13_Witness ==
    \E i \in DOMAIN seqRun.log :
        /\ cs.ovl[seqRun.log[i].op] # OVERLAP_FAILED
        /\ UsesLeftAfter(cs, seqRun.log[i], ProposedInput(cs, seqRun.log[i].op)) > 0
        /\ seqRun.log[i].ovlIdx = OVERLAP_FAILED

\* C14: for every Group dispatch of Schedule(), the use counts handed back
\* to the caller, the use counts left by scheduleGroupRpo, the use counts of
\* the final state of the Group DP and the use counts updateGroupUseCount
\* computes from the ambient map are one and the same map.
C14_SameUseCountOnAllPaths ==
    pc = "dp" =>
        \A k \in calls :
            /\ k.outCnt = updateGroupUseCount(cs, k.group, k.useCnt)
            /\ k.outCnt = scheduleGroupRpo(cs, hier, k.group, k.useCnt).useCnt
            /\ k.outCnt = GroupDpFinal(cs, hier, k.group, k.useCnt, ord).useCnt

\* C14 witness: in one run a Group was dispatched through the DP path, a
\* Group through the reverse post-order path, and now a Group through a
\* memo hit that kills a value it consumes.
C14_Witness ==
    /\ pc = "dp"
    /\ \E k \in calls :
          /\ k.path = "hit"
          /\ DOMAIN k.useCnt \ DOMAIN k.outCnt # {}
    /\ \E x \in allCalls : x.path = "dp"
    /\ \E x \in allCalls : x.path = "rpo"

\* The ops a vertex of the hierarchical graph stands for.
VertOpSet(c, v) ==
    IF IsGroup(c, v) THEN UNION {Range(c.seqOps[t]) : t \in c.seqs[v]}
    ELSE Range(c.seqOps[v])

\* seq holds, once each, the ops of the vertices in done and no other op.
HoldsExactly(c, seq, done, n) ==
    /\ Cardinality(done) = n
    /\ Range(seq) = UNION {VertOpSet(c, v) : v \in done}
    /\ Len(seq) = Cardinality(Range(seq))

\* Every entry of the memo tab holds a schedule of exactly n distinct vertices of
\* verts; after all of verts the one entry is the one of the empty frontier.
MemoCoversSteps(c, verts, tab, n) ==
    /\ \A key \in DOMAIN tab :
          HoldsExactly(c, tab[key].seq,
                       {v \in verts : VertOpSet(c, v) \subseteq Range(tab[key].seq)}, n)
    /\ n = Cardinality(verts) => DOMAIN tab = {{}}

\* C15: in Schedule() and in scheduleGroupDp, after i steps every memo entry
\* holds a schedule of exactly i distinct vertices, and after |V| steps the
\* memo has one entry, under the empty frontier, that holds all of V.
C15_StepCoversThatManyVertices ==
    pc = "dp" =>
        /\ MemoCoversSteps(cs, TopVerts(cs, hier), memo, step)
        /\ \A k \in calls : \A i \in 0 .. Cardinality(cs.seqs[k.group]) :
              MemoCoversSteps(cs, cs.seqs[k.group],
                              GroupDpLoop(cs, hier, GroupDpInit(cs, hier, k.group, k.useCnt),
                                          i, ord),
                              i)

\* C15 witness: Schedule() is midway with several frontiers in its memo,
\* and has run the DP of a Group in the last step.
C15_Witness ==
    /\ pc = "dp"
    /\ 0 < step /\ step < nVert
    /\ Cardinality(DOMAIN memo) > 1
    /\ \E k \in calls : k.path = "dp"

RECURSIVE VertsOf(_, _, _)
\* The vertices of verts in the order in which op list seq runs them.
VertsOf(c, verts, seq) ==
    IF seq = <<>> THEN <<>>
    ELSE LET v == CHOOSE x \in verts : Head(seq) \in VertOpSet(c, x)
         IN  <<v>> \o VertsOf(c, verts \ {v},
                              SelectSeq(seq, LAMBDA o : o \notin VertOpSet(c, v)))

RECURSIVE ReplayFrontier(_, _, _)
\* The frontier and predecessor counts after the vertices of order, from
\* ex = [zeroIn, predCnt].
ReplayFrontier(h, order, ex) ==
    IF order = <<>> THEN ex
    ELSE ReplayFrontier(h, Tail(order), NewFrontier(h, Head(order), ex.zeroIn, ex))

\* The one entry of a memo before the first step, with its key.
FirstEntry(tab) ==
    [zeroIn |-> CHOOSE k \in DOMAIN tab : TRUE,
     entry  |-> tab[CHOOSE k \in DOMAIN tab : TRUE]]

\* Entry e under key is what running its own op list from the first entry
\* gives: the frontier and predecessor counts, the use counts, and (when the
\* list is made of Sequences only) the memory states.
EntryReplays(c, h, e, key, first, order) ==
    /\ ReplayFrontier(h, order, [zeroIn |-> first.zeroIn, predCnt |-> first.entry.predCnt])
          = [zeroIn |-> key, predCnt |-> e.predCnt]
    /\ ScheduleOps(c, e.seq, [seq |-> <<>>, states |-> MemStateVec(0),
                              useCnt |-> first.entry.useCnt]).useCnt = e.useCnt
    /\ Len(e.states.trans) = Len(e.seq)
    /\ (\A i \in DOMAIN order : IsSequence(c, order[i])) =>
          ScheduleSeqList(c, order, [seq |-> <<>>, states |-> first.entry.states,
                                     useCnt |-> first.entry.useCnt]).states = e.states

\* Every entry of memo tab replays, tab0 being the memo before the first step.
MemoReplays(c, h, verts, tab0, tab) ==
    \A key \in DOMAIN tab :
        EntryReplays(c, h, tab[key], key, FirstEntry(tab0), VertsOf(c, verts, tab[key].seq))

\* What scheduling v from entry e under key reaches: the frontier with the
\* predecessor counts, the vertices scheduled, and the use counts cnt.
Reached(c, h, verts, key, e, v, cnt) ==
    [front |-> NewFrontier(h, v, key, e),
     done  |-> {x \in verts : VertOpSet(c, x) \subseteq Range(e.seq)} \cup {v},
     useCnt |-> cnt]

\* Partial schedules that reach the same frontier have scheduled the same
\* vertices and carry the same predecessor counts and use counts.
SameKeySameRest(reached) ==
    \A x \in reached, y \in reached :
        x.front.zeroIn = y.front.zeroIn =>
            x.done = y.done /\ x.front.predCnt = y.front.predCnt /\ x.useCnt = y.useCnt

\* What the next step of Schedule() reaches from its memo.
TopReached ==
    {Reached(cs, hier, TopVerts(cs, hier), kv[1], memo[kv[1]], kv[2],
             scheduleVertex(cs, hier, kv[2], memo[kv[1]].useCnt, memo[kv[1]].states,
                            groupMemo, ord).useCnt)
     : kv \in {p \in (DOMAIN memo) \X TopVerts(cs, hier) : p[2] \in p[1]}}

\* What the next step of scheduleGroupDp reaches from memo tab of Group g.
GroupReached(g, tab) ==
    {Reached(cs, hier, cs.seqs[g], kv[1], tab[kv[1]], kv[2],
             scheduleSequence(cs, kv[2], tab[kv[1]].useCnt).useCnt)
     : kv \in {p \in (DOMAIN tab) \X cs.seqs[g] : p[2] \in p[1]}}

\* The memo of scheduleGroupDp for dispatch k after i steps.
GroupMemoAt(k, i) ==
    GroupDpLoop(cs, hier, GroupDpInit(cs, hier, k.group, k.useCnt), i, ord)

\* C16: in Schedule() and in scheduleGroupDp, partial schedules that reach
\* the same frontier in one step have scheduled the same vertices and carry
\* equal predecessor counts and use counts; and every memo entry, whether or
\* not Update replaced its op list and states, has predecessor counts, use
\* counts and states that are those of its own op list.
C16_CollisionKeepsEntryConsistent ==
    pc = "dp" =>
        /\ SameKeySameRest(TopReached)
        /\ MemoReplays(cs, hier, TopVerts(cs, hier), ScheduleInit(cs, hier), memo)
        /\ \A k \in calls : \A i \in 0 .. Cardinality(cs.seqs[k.group]) :
              /\ SameKeySameRest(GroupReached(k.group, GroupMemoAt(k, i)))
              /\ MemoReplays(cs, hier, cs.seqs[k.group],
                             GroupDpInit(cs, hier, k.group, k.useCnt), GroupMemoAt(k, i))

\* C16 witness: two entries of the memo of Schedule() reach the same
\* frontier in this step, through different vertices.
C16_Witness ==
    /\ pc = "dp"
    /\ \E k1 \in DOMAIN memo, k2 \in DOMAIN memo :
          /\ k1 # k2
          /\ \E v1 \in k1, v2 \in k2 :
                /\ v1 # v2
                /\ NewFrontier(hier, v1, k1, memo[k1]).zeroIn
                     = NewFrontier(hier, v2, k2, memo[k2]).zeroIn

\* The vertices still part of the hierarchical graph: all but the Groups
\* that were ungrouped.
PresentVerts == DOMAIN hier.succs \ Range(ungroupOrder)

\* C17: once ungroup(G) has returned, no vertex of the hierarchical graph
\* holds G in its succs or preds, every Sequence of G has an empty group
\* back-reference, and G is not among the vertices a later Schedule() visits.
C17_UngroupedGroupDetached ==
    \A i \in DOMAIN ungroupOrder :
        /\ \A v \in PresentVerts :
              /\ ungroupOrder[i] \notin Range(hier.succs[v])
              /\ ungroupOrder[i] \notin Range(hier.preds[v])
        /\ \A s \in cs.seqs[ungroupOrder[i]] : hier.group[s] = 0
        /\ ungroupOrder[i] \notin TopVerts(cs, hier)
        /\ cs.seqs[ungroupOrder[i]] \subseteq TopVerts(cs, hier)

\* C17 witness: a Group with a neighbouring Group on either side has been
\* ungrouped while both neighbours are still in place.
C17_Witness ==
    /\ Len(ungroupOrder) = 1
    /\ \E g1 \in cs.grpVerts, g2 \in cs.grpVerts :
          /\ g1 \in PresentVerts /\ g2 \in PresentVerts
          /\ \E s \in cs.seqs[ungroupOrder[1]] :
                /\ g1 \in Range(hier.preds[s])
          /\ \E s \in cs.seqs[ungroupOrder[1]] :
                /\ g2 \in Range(hier.succs[s])

\* The Groups among the direct successors of a Sequence in a hierarchical graph.
SuccGroups(c, h, seq) == {g \in Range(h.succs[seq]) : IsGroup(c, g)}

\* C18: when tryUngroupSucc(seq) returns, every Group that was a direct successor
\* of seq when the call started has been ungrouped, and the call returned true
\* exactly when there was such a Group.
C18_EverySuccGroupUngrouped ==
    (tryRun.seq # 0 /\ ~tryRun.crash) =>
        /\ \A g \in SuccGroups(cs, tryRun.before, tryRun.seq) : g \in Ungrouped
        /\ tryRun.changed = (SuccGroups(cs, tryRun.before, tryRun.seq) # {})

\* A call on a Sequence with two successor Groups has returned.
C18_Witness ==
    /\ tryRun.seq # 0
    /\ ~tryRun.crash
    /\ Cardinality(SuccGroups(cs, tryRun.before, tryRun.seq)) >= 2

\* Schedule() of the first iteration has returned: hier is the graph as built
\* and the group memo was empty when it started.
FirstScheduleReturned == pc = "analyze" /\ iter = 1

\* C19: the op list Schedule() returns for a hierarchical graph and a group memo
\* is the same for every order in which the memo's frontier keys are iterated.
C19_SameListForEveryOrder ==
    FirstScheduleReturned =>
        \A o \in Orders : Schedule(cs, hier, EmptyMap, o) = sched

\* Schedule() has returned on a graph for which the two orders emit different
\* lists of the same ops.
C19_Witness ==
    /\ FirstScheduleReturned
    /\ Schedule(cs, hier, EmptyMap, "asc") # Schedule(cs, hier, EmptyMap, "desc")
    /\ IsPermutation(cs, Schedule(cs, hier, EmptyMap, "asc"))
    /\ IsPermutation(cs, Schedule(cs, hier, EmptyMap, "desc"))

\* The total size of the values held in the use-count map of a partial result.
LiveSize(c, e) == SumSizes(c, DOMAIN e.useCnt)

\* C20: in every entry of the memo of Schedule(), at every step, states.Latest()
\* is the sum of the sizes of the values held in the entry's use-count map.
C20_LatestIsLiveSize ==
    \A k \in DOMAIN memo : Latest(memo[k].states) = LiveSize(cs, memo[k])

\* A memo entry after a step that scheduled a Group, on a graph with an
\* overlap hint.
C20_Witness ==
    /\ pc = "dp"
    /\ step >= 2
    /\ calls # {}
    /\ DOMAIN memo # {}
    /\ \E o \in DOMAIN cs.ovl : cs.ovl[o] # OVERLAP_FAILED

\* The non-PARAM values a Sequence reads that no op of the Sequence defines.
SeqOutside(c, s) ==
    {v \in SeqInputs(c, s) \ c.param :
        \A o \in Range(c.seqOps[s]) : v \notin Range(c.opOut[o])}

\* The use-count map of partial result e holds every value that vertex vert
\* consumes from outside, with a count of at least the uses made by vert.
UseCountsSuffice(c, e, vert) ==
    IF IsGroup(c, vert)
    THEN \A i \in DOMAIN c.consumed[vert] :
            /\ c.consumed[vert][i][1] \in DOMAIN e.useCnt
            /\ e.useCnt[c.consumed[vert][i][1]] >= c.consumed[vert][i][2]
    ELSE \A val \in SeqOutside(c, vert) :
            /\ val \in DOMAIN e.useCnt
            /\ e.useCnt[val] >= UsesIn(c, c.seqOps[vert], val)

\* Every Sequence or Group that succeeds vert has a predecessor count of at
\* least 1 in partial result e.
PredCountsSuffice(c, h, e, vert) ==
    \A succ \in Range(h.succs[vert]) :
        (IsSequence(c, succ) \/ IsGroup(c, succ)) =>
            /\ succ \in DOMAIN e.predCnt
            /\ e.predCnt[succ] >= 1

\* Both, for every vertex of every frontier of memo tab.
FrontiersSuffice(c, h, tab) ==
    \A k \in DOMAIN tab : \A vert \in k :
        /\ UseCountsSuffice(c, tab[k], vert)
        /\ PredCountsSuffice(c, h, tab[k], vert)

\* C21: whenever a Sequence or Group is scheduled from a frontier, by
\* Schedule() or by scheduleGroupDp, every value it consumes from outside is in
\* the use-count map with a count of at least its uses by that vertex, and
\* every successor Sequence or Group has a predecessor count of at least 1.
C21_CountsNeverUnderflow ==
    pc = "dp" =>
        /\ FrontiersSuffice(cs, hier, memo)
        /\ \A k \in calls : \A i \in 0 .. Cardinality(cs.seqs[k.group]) - 1 :
              FrontiersSuffice(cs, hier, GroupMemoAt(k, i))

\* C21 witness: Schedule() is about to schedule a vertex, after a step that ran
\* the DP of a Group in which a Sequence was scheduled from a frontier while
\* another reader of one of its inputs was still to come.
C21_Witness ==
    /\ pc = "dp"
    /\ step < nVert
    /\ \E key \in DOMAIN memo : key # {}
    /\ \E k \in calls :
          /\ k.path = "dp"
          /\ \E i \in 0 .. Cardinality(cs.seqs[k.group]) - 1 :
                \E key \in DOMAIN GroupMemoAt(k, i) : \E vert \in key :
                   \E val \in SeqOutside(cs, vert) :
                      GroupMemoAt(k, i)[key].useCnt[val] > UsesIn(cs, cs.seqOps[vert], val)

\* The peak of every outer iteration so far is at least p.
NoLowerPeakBefore(p) == \A i \in DOMAIN history : history[i].peak >= p

ReturnsLastPeak ==
    pc = "done" =>
        /\ EstimatePeak(cs, lastSched) = peak
        /\ cs.ovl = NoOverlap(cs.opIn) => NoLowerPeakBefore(peak)

MaxUnits == 16

\* HierarchicalSchedule has returned or aborted.
Finished == pc \in {"done", "crashed", "fatal"}

PhaseRank ==
    CASE pc = "idle" -> 4
      [] pc = "dp" -> 3
      [] pc = "analyze" -> 2
      [] pc = "ungroup" -> 1
      [] OTHER -> 0

\* What is left to do: the outer iterations up to |Groups| + 2, then the
\* phase, then the DP steps or the Sequences still to visit.
LoopVariant ==
    (Cardinality(cs.grpVerts) + 2 - iter) * 5 * MaxUnits + PhaseRank * MaxUnits
        + (IF pc = "dp" THEN nVert - step ELSE IF pc = "ungroup" THEN Cardinality(pending)
           ELSE 0)

CandComplete == Range(cand.order) = cs.seqs[gdp.g]

\* C3: the Peak() of the result of scheduleGroupDp is minimal: no topological
\* order of the Group's Sequences, evaluated with scheduleSequence from the
\* same use counts, has a strictly smaller Peak().
C3_DpPeakMinimal ==
    (gdp.pc = "returned" /\ CandComplete) => Peak(gdp.res.states) <= Peak(cand.states)

\* C3 without overlap hints: the same statement for the Groups none of whose
\* ops has an overlap hint.
C3_DpPeakMinimalNoOverlap ==
    (gdp.pc = "returned" /\ CandComplete /\ cs.ovl = NoOverlap(cs.opIn))
        => Peak(gdp.res.states) <= Peak(cand.states)

\* C3 witness: a Group with an accepted overlap whose output is smaller than
\* the overlapped input has been scheduled, and a complete order of its three
\* Sequences has been evaluated.
C3_Witness ==
    /\ gdp.pc = "returned"
    /\ CandComplete
    /\ cs.name = "overlap"
    /\ cs.size["a"] > cs.size["x"]
    /\ Len(gdp.res.seq) = 3


====
